---- MODULE Spec2Model ----
(***************************************************************************)
(* e2c: the fleet-state synchronisation core of the EC2 terminal console.  *)
(*                                                                         *)
(* The model follows internal/ui (UI, InstancesView, StatusBar,            *)
(* OverviewPanel) and internal/aws (EC2Client).  Strings are sequences of  *)
(* byte codes, so that the sort order and the hand-written substring scan  *)
(* of the source are computed, not assumed.                                *)
(*                                                                         *)
(* Threads: the render thread (tview's event loop: input handlers and the  *)
(* closures handed to QueueUpdateDraw), the ticker goroutine, one          *)
(* goroutine per refresh, and per enrichment batch one goroutine per       *)
(* instance ID plus one consumer goroutine.                                *)
(***************************************************************************)
EXTENDS Integers, Sequences, FiniteSets, TLC

(***************************************************************************)
(* Bounds of the model.                                                    *)
(***************************************************************************)
\* refreshes ever started (Start's initial load included)
MaxRefresh == 2
\* length of the ID list handed to one FetchProtectionStatuses call
MaxIds == 3
\* largest workerLimit tried for one FetchProtectionStatuses call
MaxLimit == 2
\* goroutines that call the client and the coordinator concurrently
MaxThreads == 3
\* lifecycle commands the operator confirms
MaxCommands == 1

(***************************************************************************)
(* Strings                                                                 *)
(***************************************************************************)
S_empty == <<>>
\* "i-1", "i-2"
S_i1 == <<105, 45, 49>>
S_i2 == <<105, 45, 50>>
S_i3 == <<105, 45, 51>>
\* "a", "b", "c"
S_a == <<97>>
S_b == <<98>>
S_c == <<99>>
\* "web", "RUN"
S_web == <<119, 101, 98>>
S_RUN == <<82, 85, 78>>
\* "running", "stopped"
S_running == <<114, 117, 110, 110, 105, 110, 103>>
S_stopped == <<115, 116, 111, 112, 112, 101, 100>>
\* "t2"
S_t2 == <<116, 50>>
\* "10.0.0.1", shortened to "10.1"
S_ip == <<49, 48, 46, 49>>
S_On == <<79, 110>>
S_Off == <<79, 102, 102>>
S_Unknown == <<85, 110, 107, 110, 111, 119, 110>>

\* Go's string comparison a < b: bytewise lexicographic
RECURSIVE StrLess(_, _)
StrLess(a, b) ==
    IF Len(b) = 0 THEN FALSE
    ELSE IF Len(a) = 0 THEN TRUE
    ELSE IF a[1] < b[1] THEN TRUE
    ELSE IF a[1] > b[1] THEN FALSE
    ELSE StrLess(Tail(a), Tail(b))

\* toLower: ASCII 'A'..'Z' are shifted by 'a' - 'A', everything else is kept
toLower(s) ==
    [i \in 1..Len(s) |-> IF s[i] >= 65 /\ s[i] <= 90 THEN s[i] + 32 ELSE s[i]]

\* indexString: first index (0-based) of substr in s, -1 when absent
indexString(s, substr) ==
    IF Len(substr) > Len(s) THEN -1
    ELSE LET hits == {i \in 0..(Len(s) - Len(substr)) :
                         SubSeq(s, i + 1, i + Len(substr)) = substr}
         IN  IF hits = {} THEN -1
             ELSE CHOOSE i \in hits : \A j \in hits : i <= j

containsRune(s, substr) ==
    IF Len(substr) > Len(s) THEN FALSE
    ELSE indexString(toLower(s), toLower(substr)) >= 0

containsIgnoreCase(s, substr) ==
    IF s = S_empty \/ substr = S_empty THEN FALSE
    ELSE containsRune(s, substr)

(***************************************************************************)
(* model.Instance                                                          *)
(***************************************************************************)
Instance(id, name, state, type, priv, pub) ==
    [ID |-> id, Name |-> name, State |-> state, Type |-> type,
     PrivateIP |-> priv, PublicIP |-> pub,
     TerminationProtection |-> FALSE, StopProtection |-> FALSE,
     TerminationProtectionKnown |-> FALSE, StopProtectionKnown |-> FALSE]

IsRunning(i) == i.State = S_running
IsStopped(i) == i.State = S_stopped

\* what the gateway's DescribeInstances can report: the instances of the
\* scenario of the end-to-end test (i-1 unnamed and running, i-2 "web" and
\* stopped)
Fleet ==
    {Instance(S_i1, S_empty, S_running, S_t2, S_ip, S_empty),
     Instance(S_i2, S_web, S_stopped, S_t2, S_empty, S_empty)}

FleetIDs == {i.ID : i \in Fleet}

FetchIDs == {S_a, S_b, S_c}
AllIDs == FleetIDs \cup FetchIDs

RECURSIVE SeqsOf(_, _)
\* all sequences without repetition over the set S, of length n
SeqsOf(S, n) ==
    IF n = 0 THEN {<<>>}
    ELSE UNION {{<<x>> \o t : t \in SeqsOf(S \ {x}, n - 1)} : x \in S}

\* the raw answers of DescribeInstances: any subset of the fleet in any order
RawListings == UNION {SeqsOf(sub, Cardinality(sub)) : sub \in SUBSET Fleet}

\* the listings handed to the functions called directly: any subset, in any
\* order, of the fleet and i-3, which shares its name with i-2 and has a
\* public address only
CallListings ==
    UNION {SeqsOf(sub, Cardinality(sub)) :
              sub \in SUBSET (Fleet \cup {Instance(S_i3, S_web, S_running, S_t2,
                                                   S_empty, S_ip)})}

\* the answers tried: with enrichment on, listings of at most one instance (each
\* listed instance adds a per-ID goroutine to every overlapping batch); with
\* enrichment off, every listing
Listings(expert) ==
    IF expert THEN {l \in RawListings : Len(l) <= 1} ELSE RawListings

\* the less function ListInstances passes to sort.Slice
InstanceLess(a, b) ==
    IF a.Name = S_empty /\ b.Name = S_empty THEN StrLess(a.ID, b.ID)
    ELSE IF a.Name = S_empty THEN FALSE
    ELSE IF b.Name = S_empty THEN TRUE
    ELSE StrLess(a.Name, b.Name)

\* sort.Slice is not stable: any permutation of the input that is ordered by
\* the less function is a possible result
SortResults(raw) ==
    {p \in SeqsOf({raw[i] : i \in 1..Len(raw)}, Len(raw)) :
        \A i, j \in 1..Len(p) : i < j => ~InstanceLess(p[j], p[i])}

\* the field mutant: the public address is not looked at
matchesFilter_NoPublicIP(f, instance) ==
    IF f = S_empty THEN TRUE
    ELSE \/ containsIgnoreCase(instance.ID, f)
         \/ containsIgnoreCase(instance.Name, f)
         \/ containsIgnoreCase(instance.Type, f)
         \/ containsIgnoreCase(instance.State, f)
         \/ containsIgnoreCase(instance.PrivateIP, f)

\* UI.matchesFilter
matchesFilter(f, instance) ==
    IF f = S_empty THEN TRUE
    ELSE \/ containsIgnoreCase(instance.ID, f)
         \/ containsIgnoreCase(instance.Name, f)
         \/ containsIgnoreCase(instance.Type, f)
         \/ containsIgnoreCase(instance.State, f)
         \/ containsIgnoreCase(instance.PrivateIP, f)
         \/ containsIgnoreCase(instance.PublicIP, f)

RECURSIVE FilterSeq(_, _)
FilterSeq(f, instances) ==
    IF instances = <<>> THEN <<>>
    ELSE (IF matchesFilter(f, Head(instances)) THEN <<Head(instances)>> ELSE <<>>)
         \o FilterSeq(f, Tail(instances))

\* UI.applyFilter
applyFilter(f, instances) ==
    IF f = S_empty THEN instances ELSE FilterSeq(f, instances)

\* the filter texts the operator types
Filters == {S_empty, S_RUN}

(***************************************************************************)
(* Rendering                                                               *)
(***************************************************************************)
\* the rendering mutant: the known flag is not looked at
formatProtectionCell_IgnoresKnown(enabled, known) ==
    IF enabled THEN S_On ELSE S_Off

formatProtectionCell(enabled, known) ==
    IF ~known THEN S_Unknown ELSE IF enabled THEN S_On ELSE S_Off

formatProtectionStatus(enabled, known) ==
    IF ~known THEN "Unknown" ELSE IF enabled THEN "Enabled" ELSE "Disabled"

\* a table cell holds " " + text + " "
Cell(text) == <<32>> \o text \o <<32>>

\* a cell that was never set
NoCell == <<>>

\* the cells UpdateInstances sets for one instance (Region and Age, which no
\* operation here reads back, are left out)
RenderRow(instance, showProtections) ==
    [ID |-> Cell(instance.ID), Name |-> Cell(instance.Name),
     State |-> Cell(instance.State), Type |-> Cell(instance.Type),
     PrivateIP |-> Cell(instance.PrivateIP), PublicIP |-> Cell(instance.PublicIP),
     TProtect |-> IF showProtections
                  THEN Cell(formatProtectionCell(instance.TerminationProtection,
                                                 instance.TerminationProtectionKnown))
                  ELSE NoCell,
     SProtect |-> IF showProtections
                  THEN Cell(formatProtectionCell(instance.StopProtection,
                                                 instance.StopProtectionKnown))
                  ELSE NoCell]

(***************************************************************************)
(* State                                                                   *)
(***************************************************************************)
VARIABLES
    expertMode,     \* config.UI.ExpertMode (= InstancesView.showProtections)
    filter,         \* UI.filter
    nRefresh,       \* refresh goroutines started so far
    refresh,        \* the refresh goroutines: position and locals
    store,          \* EC2Client.instances
    cache,          \* EC2Client.protections
    remoteProt,     \* the protection attributes the gateway reports, per ID
    queue,          \* tview's update queue: closures handed to QueueUpdateDraw
    viewInstances,  \* InstancesView.instances
    selected,       \* InstancesView.selected
    table,          \* the rows of the tview table (the header row is row 0)
    tableSel,       \* the table's selected row (tview's GetSelection)
    status,         \* StatusBar.status
    overview,       \* OverviewPanel counters
    batch,          \* the FetchProtectionStatuses calls: semaphore, tasks, stream
    received,       \* what the caller of FetchProtectionStatuses has read so far
    ticker,         \* the ticker goroutine: 0 in its select, r inside the
                    \* RefreshInstances call that starts refresh r
    lastPatch,      \* whether the last patch closure run found its row
    described,      \* the pairs EC2Client.getProtectionAttributes has returned so
                    \* far: [id, termination, stop]
    call,           \* the last direct call of a unit harness: name, arguments
    ret,            \* and what it returned (a list of instances)
    ctxDone,        \* ui.ctx, the context handed to every gateway call, is cancelled
    thread,         \* goroutines calling EC2Client and UI methods: position, locals
    lock,           \* the holders of protectionsM, instancesM, refreshMutex and
                    \* InstancesView.instancesM
    command         \* the lifecycle commands: the open confirmation dialog and the
                    \* mutate calls issued so far

vars == <<expertMode, filter, nRefresh, refresh, store, cache, remoteProt, queue,
          viewInstances, selected, table, tableSel, status, overview,
          batch, received, ticker, lastPatch, described, call, ret, ctxDone,
          thread, lock, command>>

configVars == <<expertMode, remoteProt, ctxDone>>
viewVars == <<viewInstances, selected, table, tableSel>>
barVars == <<status, overview>>
ghostVars == <<ticker, lastPatch, described, call, ret>>
lockVars == <<thread, lock>>

Refreshes == 1..MaxRefresh

\* the worker limit UI.fetchProtectionsInBackground passes
EnrichLimit == 5

Msg(text, n) == [text |-> text, n |-> n]

NoItem == [kind |-> "none", r |-> 0, instances |-> <<>>, total |-> 0, running |-> 0,
           stopped |-> 0, id |-> S_empty, term |-> FALSE, stop |-> FALSE]

\* the closure RefreshInstances queues
SnapshotItem(r, filtered, total, running, stopped) ==
    [NoItem EXCEPT !.kind = "snapshot", !.r = r, !.instances = filtered,
                   !.total = total, !.running = running, !.stopped = stopped]

\* the closure fetchProtectionsInBackground queues for one streamed result
PatchItem(r, st) ==
    [NoItem EXCEPT !.kind = "patch", !.r = r, !.id = st.InstanceID,
                   !.term = st.TerminationProtection, !.stop = st.StopProtection]

NoStatus == [InstanceID |-> S_empty, TerminationProtection |-> FALSE,
             StopProtection |-> FALSE]

IdleRefresh == [pc |-> "idle", instances |-> <<>>, filtered |-> <<>>,
                applied |-> FALSE]

IdleBatch == [active |-> FALSE, ids |-> <<>>, limit |-> 0, sem |-> 0, wg |-> 0,
              task |-> <<>>, closed |-> FALSE, consumer |-> "none",
              item |-> NoStatus]

\* the state of a FetchProtectionStatuses call right after it returned the
\* stream: every per-ID goroutine is counted in the wait group and waits for a
\* semaphore slot, the caller is about to range over the stream
NewBatch(ids, workerLimit) ==
    [active |-> TRUE, ids |-> ids, limit |-> workerLimit, sem |-> 0,
     wg |-> Len(ids),
     task |-> [t \in 1..Len(ids) |-> [pc |-> "acquire", err |-> FALSE,
                                       result |-> NoStatus]],
     closed |-> FALSE, consumer |-> "recv", item |-> NoStatus]

\* what DescribeInstanceAttribute reports at start
InitialProt ==
    [id \in AllIDs |-> [termination |-> (id \in {S_i2, S_a, S_c}),
                        stop |-> (id \in {S_c})]]

EmptyCache == [id \in {} |-> [termination |-> FALSE, stop |-> FALSE]]

\* a direct call: the function's name, its string argument (a filter, an ID),
\* its list argument and its two boolean arguments
Call(op, text, list, term, stop) ==
    [op |-> op, text |-> text, list |-> list, term |-> term, stop |-> stop]

NoCall == Call("none", S_empty, <<>>, FALSE, FALSE)

\* no confirmation dialog is open
NoDialog == [op |-> "none", id |-> S_empty, state |-> S_empty]

\* no dialog and no mutate call yet; a call is [op, id, state, pc] with the
\* shown state of the instance when its key was pressed and pc "call" while
\* the gateway call is in flight, then "ok" or "failed"
NoCommands == [dialog |-> NoDialog, calls |-> <<>>]

\* the goroutines of the lock harness
Threads == 1..MaxThreads

\* a goroutine that has not called anything yet
NoThread ==
    [op |-> "idle", pc |-> "idle", id |-> S_empty, list |-> <<>>, i |-> 0,
     term |-> FALSE, stop |-> FALSE, err |-> FALSE]

\* no mutex is held: the writer and the readers of EC2Client.protectionsM, the
\* holders of EC2Client.instancesM, UI.refreshMutex and InstancesView.instancesM
NoLocks ==
    [protectionsW |-> 0, protectionsR |-> {}, instancesM |-> 0, refreshMutex |-> 0,
     viewM |-> 0]

InitCommon ==
    /\ filter = S_empty
    /\ thread = [t \in Threads |-> NoThread]
    /\ lock = NoLocks
    /\ command = NoCommands
    /\ nRefresh = 0
    /\ refresh = [r \in Refreshes |-> IdleRefresh]
    /\ store = <<>>
    /\ cache = EmptyCache
    /\ remoteProt = InitialProt
    /\ queue = <<>>
    /\ viewInstances = <<>>
    /\ selected = 0
    /\ table = <<>>
    /\ tableSel = 0
    /\ status = Msg("Starting...", 0)
    /\ overview = [total |-> 0, running |-> 0, stopped |-> 0]
    /\ received = <<>>
    /\ ticker = 0
    /\ lastPatch = "none"
    /\ described = {}
    /\ call = NoCall
    /\ ret = <<>>
    /\ ctxDone = FALSE

\* the state after NewUI
Init ==
    /\ InitCommon
    /\ expertMode \in BOOLEAN
    /\ batch = [b \in Refreshes |-> IdleBatch]

(***************************************************************************)
(* InstancesView                                                           *)
(***************************************************************************)
IDsOf(instances) == {instances[i].ID : i \in 1..Len(instances)}

\* the clamp mutant: the remembered row is selected whatever the list's length
UpdateInstances_NoClamp(instances) ==
    [instances |-> instances,
     table |-> [i \in 1..Len(instances) |-> RenderRow(instances[i], expertMode)],
     tableSel |-> selected + 1,
     selected |-> selected]

\* the off-by-one mutant: the selected row, not its index, is remembered
UpdateInstances_RemembersRow(instances) ==
    [instances |-> instances,
     table |-> [i \in 1..Len(instances) |-> RenderRow(instances[i], expertMode)],
     tableSel |-> IF selected < Len(instances) THEN selected + 1
                  ELSE IF Len(instances) > 0 THEN 1
                  ELSE tableSel,
     selected |-> IF selected < Len(instances) THEN selected + 1
                  ELSE IF Len(instances) > 0 THEN 1
                  ELSE selected]

\* InstancesView.UpdateInstances: the new values of the view's four fields
UpdateInstances(instances) ==
    [instances |-> instances,
     table |-> [i \in 1..Len(instances) |-> RenderRow(instances[i], expertMode)],
     tableSel |-> IF selected < Len(instances) THEN selected + 1
                  ELSE IF Len(instances) > 0 THEN 1
                  ELSE tableSel,
     selected |-> IF selected < Len(instances) THEN selected
                  ELSE IF Len(instances) > 0 THEN 0
                  ELSE selected]

\* InstancesView.GetSelectedInstance: the index it returns (0 for nil, else
\* the 1-based position in v.instances) and the value it leaves in v.selected
GetSelectedInstance ==
    IF tableSel <= 0 \/ tableSel - 1 >= Len(viewInstances)
    THEN [index |-> 0, selected |-> selected]
    ELSE [index |-> tableSel, selected |-> tableSel - 1]

\* the position of the first instance of the list with this ID, 0 without one
FirstIndex(instances, id) ==
    IF id \in IDsOf(instances)
    THEN CHOOSE i \in 1..Len(instances) :
            /\ instances[i].ID = id
            /\ \A j \in 1..(i - 1) : instances[j].ID # id
    ELSE 0

\* the stale-patch mutant: the row index is used without looking at found
UpdateProtection_NoFoundCheck(instances, tbl, id, terminationProtection, stopProtection) ==
    LET idx == IF FirstIndex(instances, id) = 0 THEN 1 ELSE FirstIndex(instances, id)
    IN  [instances |-> instances,
         table |-> IF Len(tbl) >= idx /\ expertMode
                   THEN [tbl EXCEPT ![idx].TProtect =
                                        Cell(formatProtectionCell(terminationProtection, TRUE)),
                                    ![idx].SProtect =
                                        Cell(formatProtectionCell(stopProtection, TRUE))]
                   ELSE tbl]

\* the patch mutant: the loop neither compares the ID nor stops at the match
UpdateProtection_EveryRow(instances, tbl, id, terminationProtection, stopProtection) ==
    IF FirstIndex(instances, id) = 0 THEN [instances |-> instances, table |-> tbl]
    ELSE [instances |->
             [i \in 1..Len(instances) |->
                 [instances[i] EXCEPT !.TerminationProtection = terminationProtection,
                                      !.StopProtection = stopProtection,
                                      !.TerminationProtectionKnown = TRUE,
                                      !.StopProtectionKnown = TRUE]],
          table |->
             IF expertMode
             THEN [i \in 1..Len(tbl) |->
                     [tbl[i] EXCEPT !.TProtect =
                                        Cell(formatProtectionCell(terminationProtection, TRUE)),
                                    !.SProtect =
                                        Cell(formatProtectionCell(stopProtection, TRUE))]]
             ELSE tbl]

\* the flag mutant: only the termination attribute is stored and marked known
UpdateProtection_TerminationOnly(instances, tbl, id, terminationProtection, stopProtection) ==
    LET idx == FirstIndex(instances, id)
    IN  IF idx = 0 THEN [instances |-> instances, table |-> tbl]
        ELSE [instances |->
                 [instances EXCEPT ![idx].TerminationProtection = terminationProtection,
                                   ![idx].TerminationProtectionKnown = TRUE],
              table |->
                 IF expertMode
                 THEN [tbl EXCEPT ![idx].TProtect =
                                      Cell(formatProtectionCell(terminationProtection, TRUE))]
                 ELSE tbl]

\* InstancesView.UpdateProtection: the new v.instances and table rows
UpdateProtection(instances, tbl, id, terminationProtection, stopProtection) ==
    LET idx == FirstIndex(instances, id)
    IN  IF idx = 0 THEN [instances |-> instances, table |-> tbl]
        ELSE [instances |->
                 [instances EXCEPT ![idx].TerminationProtection = terminationProtection,
                                   ![idx].StopProtection = stopProtection,
                                   ![idx].TerminationProtectionKnown = TRUE,
                                   ![idx].StopProtectionKnown = TRUE],
              table |->
                 IF expertMode
                 THEN [tbl EXCEPT ![idx].TProtect =
                                      Cell(formatProtectionCell(terminationProtection, TRUE)),
                                  ![idx].SProtect =
                                      Cell(formatProtectionCell(stopProtection, TRUE))]
                 ELSE tbl]

(***************************************************************************)
(* UI: refresh triggers                                                    *)
(***************************************************************************)
\* the coordinator mutant: a failed refresh leaves it refusing triggers
RefreshInstances_RefusesAfterFailure ==
    /\ nRefresh < MaxRefresh
    /\ \A r \in Refreshes : refresh[r].pc # "failed"
    /\ selected' = GetSelectedInstance.selected
    /\ status' = Msg("Refreshing instances...", 0)
    /\ nRefresh' = nRefresh + 1
    /\ refresh' = [refresh EXCEPT ![nRefresh + 1].pc = "list"]

\* UI.RefreshInstances on the render thread, up to the go statement:
\* GetSelectedInstance, SetStatus under refreshMutex, then the goroutine is
\* started and the mutex released on return
RefreshInstances ==
    /\ nRefresh < MaxRefresh
    /\ selected' = GetSelectedInstance.selected
    /\ status' = Msg("Refreshing instances...", 0)
    /\ nRefresh' = nRefresh + 1
    /\ refresh' = [refresh EXCEPT ![nRefresh + 1].pc = "list"]

\* UI.Start: the ticker is started and the initial load triggered on the
\* thread that then runs the event loop
Start ==
    /\ nRefresh = 0
    /\ RefreshInstances
    /\ UNCHANGED <<configVars, lockVars, command, filter, store, cache, queue, viewInstances, table,
                   tableSel, overview, batch, received, ghostVars>>

\* key 'r' on the main page
ManualRefresh ==
    /\ nRefresh >= 1
    /\ RefreshInstances
    /\ UNCHANGED <<configVars, lockVars, command, filter, store, cache, queue, viewInstances, table,
                   tableSel, overview, batch, received, ghostVars>>

\* UI.startRefreshTicker: the ticker goroutine receives a tick and enters
\* RefreshInstances, whose first statement is GetSelectedInstance
TimerTick ==
    /\ nRefresh >= 1
    /\ nRefresh < MaxRefresh
    /\ ticker = 0
    /\ selected' = GetSelectedInstance.selected
    /\ nRefresh' = nRefresh + 1
    /\ ticker' = nRefresh + 1
    /\ UNCHANGED <<configVars, lockVars, command, filter, refresh, store, cache, queue, viewInstances,
                   table, tableSel, barVars, batch, received, lastPatch, described, call, ret>>

\* the ticker goroutine goes on in RefreshInstances: SetStatus under
\* refreshMutex and the go statement; then it is back in its select
TimerRefresh ==
    /\ ticker # 0
    /\ status' = Msg("Refreshing instances...", 0)
    /\ refresh' = [refresh EXCEPT ![ticker].pc = "list"]
    /\ ticker' = 0
    /\ UNCHANGED <<configVars, lockVars, command, filter, nRefresh, store, cache, queue, viewVars,
                   overview, batch, received, lastPatch, described, call, ret>>

\* the Apply (f typed) and Clear (f empty) buttons of the filter dialog:
\* UI.SetFilter
SetFilter(f) ==
    /\ nRefresh >= 1
    /\ filter' = f
    /\ RefreshInstances
    /\ UNCHANGED <<configVars, lockVars, command, store, cache, queue, viewInstances, table, tableSel,
                   overview, batch, received, ghostVars>>

\* the operator moves the table cursor to another data row
MoveCursor(row) ==
    /\ nRefresh >= 1
    /\ row \in 1..Len(table)
    /\ row # tableSel
    /\ tableSel' = row
    /\ UNCHANGED <<configVars, lockVars, command, filter, nRefresh, refresh, store, cache, queue,
                   viewInstances, selected, table, barVars, batch, received,
                   ghostVars>>

(***************************************************************************)
(* EC2Client: the attribute cache                                          *)
(***************************************************************************)
\* EC2Client.getCachedProtection: (termination, stop, found)
getCachedProtection(id) ==
    IF id \in DOMAIN cache
    THEN [termination |-> cache[id].termination, stop |-> cache[id].stop, ok |-> TRUE]
    ELSE [termination |-> FALSE, stop |-> FALSE, ok |-> FALSE]

\* the eviction mutant: the map is replaced by one holding the new entry only
setCachedProtection_Replaces(id, term, stop) ==
    [k \in {id} |-> [termination |-> term, stop |-> stop]]

\* EC2Client.setCachedProtection: the map after the upsert
setCachedProtection(id, term, stop) ==
    [k \in DOMAIN cache \cup {id} |->
        IF k = id THEN [termination |-> term, stop |-> stop] ELSE cache[k]]

\* convertToModelInstance with the cached protections ListInstances passes
convertToModelInstance(instance, useCachedProtections) ==
    LET c == getCachedProtection(instance.ID)
        ok == useCachedProtections /\ c.ok
    IN  [instance EXCEPT !.TerminationProtection = ok /\ c.termination,
                         !.StopProtection = ok /\ c.stop,
                         !.TerminationProtectionKnown = ok,
                         !.StopProtectionKnown = ok]

(***************************************************************************)
(* UI: the refresh goroutine                                               *)
(***************************************************************************)
\* the error-path mutant: the failed listing is stored and shown as empty
ListFail_ClearsSnapshot(r) ==
    /\ refresh[r].pc = "list"
    /\ refresh' = [refresh EXCEPT ![r].pc = "failed"]
    /\ store' = <<>>
    /\ viewInstances' = <<>>
    /\ table' = <<>>
    /\ status' = Msg("Error", 0)
    /\ UNCHANGED <<configVars, lockVars, command, filter, nRefresh, cache, queue, selected, tableSel,
                   overview, batch, received, ghostVars>>

\* DescribeInstances fails: ListInstances returns the error, the goroutine
\* calls statusBar.SetError itself and returns
ListFail(r) ==
    /\ refresh[r].pc = "list"
    /\ refresh' = [refresh EXCEPT ![r].pc = "failed"]
    /\ status' = Msg("Error", 0)
    /\ UNCHANGED <<configVars, lockVars, command, filter, nRefresh, store, cache, queue, viewVars,
                   overview, batch, received, ghostVars>>

\* DescribeInstances answers: ListInstances converts every instance with the
\* cached protections, sorts, stores the list under instancesM and returns it
ListOk(r, raw) ==
    /\ refresh[r].pc = "list"
    /\ \E sorted \in SortResults([i \in 1..Len(raw) |->
                                     convertToModelInstance(raw[i], expertMode)]) :
          /\ store' = sorted
          /\ refresh' = [refresh EXCEPT ![r].pc = "filter", ![r].instances = sorted]
    /\ UNCHANGED <<configVars, lockVars, command, filter, nRefresh, cache, queue, viewVars, barVars, batch, received, ghostVars>>

\* the goroutine counts the running and stopped instances and applies the
\* filter it reads from ui.filter
Filter(r) ==
    /\ refresh[r].pc = "filter"
    /\ refresh' = [refresh EXCEPT ![r].pc = "publish",
                                  ![r].filtered = applyFilter(filter, refresh[r].instances)]
    /\ UNCHANGED <<configVars, lockVars, command, filter, nRefresh, store, cache, queue, viewVars,
                   barVars, batch, received, ghostVars>>

\* the two counters of the goroutine's loop over the listed instances
countRunning(instances) == Cardinality({i \in 1..Len(instances) : IsRunning(instances[i])})

countStopped(instances) == Cardinality({i \in 1..Len(instances) : IsStopped(instances[i])})

\* the cache-lookup mutant: every listed ID is collected
RECURSIVE idsToFetch_IgnoresCache(_)
idsToFetch_IgnoresCache(instances) ==
    IF instances = <<>> THEN <<>>
    ELSE <<Head(instances).ID>> \o idsToFetch_IgnoresCache(Tail(instances))

\* the IDs fetchProtectionsInBackground collects: those without a cache entry,
\* in list order
RECURSIVE idsToFetch(_)
idsToFetch(instances) ==
    IF instances = <<>> THEN <<>>
    ELSE (IF getCachedProtection(Head(instances).ID).ok THEN <<>>
          ELSE <<Head(instances).ID>>)
         \o idsToFetch(Tail(instances))

\* the ordering mutant: the enrichment batch is launched where the snapshot
\* should have been queued
Publish_EnrichFirst(r) ==
    /\ refresh[r].pc = "publish"
    /\ batch' = IF expertMode /\ idsToFetch(refresh[r].filtered) # <<>>
                THEN [batch EXCEPT ![r] =
                         NewBatch(idsToFetch(refresh[r].filtered), EnrichLimit)]
                ELSE batch
    /\ refresh' = [refresh EXCEPT ![r].pc = "done", ![r].instances = <<>>,
                                  ![r].filtered = <<>>]
    /\ UNCHANGED <<configVars, lockVars, command, filter, nRefresh, store, cache, queue, viewVars,
                   barVars, received, ghostVars>>

\* the goroutine hands the snapshot closure to QueueUpdateDraw, which returns
\* once the event loop has run the closure
Publish(r) ==
    /\ refresh[r].pc = "publish"
    /\ queue' = Append(queue,
                       SnapshotItem(r, refresh[r].filtered, Len(refresh[r].instances),
                                    countRunning(refresh[r].instances),
                                    countStopped(refresh[r].instances)))
    /\ refresh' = [refresh EXCEPT ![r].pc = "queued", ![r].instances = <<>>]
    /\ UNCHANGED <<configVars, lockVars, command, filter, nRefresh, store, cache, viewVars, barVars,
                   batch, received, ghostVars>>

\* after QueueUpdateDraw: in expert mode UI.fetchProtectionsInBackground, which
\* finds nothing to fetch or calls FetchProtectionStatuses and starts the
\* consumer goroutine; then the refresh goroutine ends
Enrich(r) ==
    /\ refresh[r].pc = "enrich"
    /\ refresh' = [refresh EXCEPT ![r].pc = "done", ![r].filtered = <<>>]
    /\ batch' = IF expertMode /\ idsToFetch(refresh[r].filtered) # <<>>
                THEN [batch EXCEPT ![r] =
                         NewBatch(idsToFetch(refresh[r].filtered), EnrichLimit)]
                ELSE batch
    /\ UNCHANGED <<configVars, lockVars, command, filter, nRefresh, store, cache, queue, viewVars,
                   barVars, received, ghostVars>>

(***************************************************************************)
(* The render loop                                                         *)
(***************************************************************************)
\* the snapshot closure: UpdateInstances, overviewPanel.Update, SetRegion,
\* SetStatus; the refresh goroutine that queued it resumes
ApplySnapshot(item) ==
    LET u == UpdateInstances(item.instances)
    IN  /\ viewInstances' = u.instances
        /\ table' = u.table
        /\ tableSel' = u.tableSel
        /\ selected' = u.selected
        /\ overview' = [total |-> item.total, running |-> item.running,
                        stopped |-> item.stopped]
        /\ status' = Msg("Found instances", Len(item.instances))
        /\ refresh' = [refresh EXCEPT ![item.r].applied = TRUE,
                                      ![item.r].pc = "enrich"]
        /\ UNCHANGED batch

\* the patch closure: UpdateProtection; the consumer that queued it resumes
ApplyPatch(item) ==
    LET u == UpdateProtection(viewInstances, table, item.id, item.term, item.stop)
    IN  /\ viewInstances' = u.instances
        /\ table' = u.table
        /\ batch' = [batch EXCEPT ![item.r].consumer = "recv"]
        /\ UNCHANGED <<tableSel, selected, overview, status, refresh>>

\* the event loop takes the oldest queued closure and runs it
RunQueued ==
    /\ queue # <<>>
    /\ queue' = Tail(queue)
    /\ IF Head(queue).kind = "snapshot"
       THEN ApplySnapshot(Head(queue)) /\ UNCHANGED lastPatch
       ELSE /\ ApplyPatch(Head(queue))
            /\ lastPatch' = IF Head(queue).id \in IDsOf(viewInstances)
                            THEN "hit" ELSE "miss"
    /\ UNCHANGED <<configVars, lockVars, command, filter, nRefresh, store, cache, received, ticker,
                   described, call, ret>>

(***************************************************************************)
(* EC2Client.FetchProtectionStatuses                                       *)
(***************************************************************************)
Tasks(b) == 1..Len(batch[b].task)

\* tasks between `sem <- struct{}{}` and `<-sem`
Holding(b) == {t \in Tasks(b) : batch[b].task[t].pc = "describe"}

\* the semaphore mutant: the slot is taken without waiting for a free one
TaskAcquire_NoLimit(b, t) ==
    /\ batch[b].active
    /\ t \in Tasks(b)
    /\ batch[b].task[t].pc = "acquire"
    /\ batch' = [batch EXCEPT ![b].sem = @ + 1, ![b].task[t].pc = "describe"]
    /\ UNCHANGED <<configVars, lockVars, command, filter, nRefresh, refresh, store, cache, queue,
                   viewVars, barVars, received, ghostVars>>

\* sem <- struct{}{}: blocks while the channel's buffer (workerLimit) is full
TaskAcquire(b, t) ==
    /\ batch[b].active
    /\ t \in Tasks(b)
    /\ batch[b].task[t].pc = "acquire"
    /\ batch[b].sem < batch[b].limit
    /\ batch' = [batch EXCEPT ![b].sem = @ + 1, ![b].task[t].pc = "describe"]
    /\ UNCHANGED <<configVars, lockVars, command, filter, nRefresh, refresh, store, cache, queue,
                   viewVars, barVars, received, ghostVars>>

\* EC2Client.getProtectionAttributes succeeds; the slot is released
TaskDescribeOk(b, t) ==
    /\ batch[b].active
    /\ t \in Tasks(b)
    /\ batch[b].task[t].pc = "describe"
    /\ batch' = [batch EXCEPT
                    ![b].sem = @ - 1,
                    ![b].task[t].pc = "send",
                    ![b].task[t].result =
                        [InstanceID |-> batch[b].ids[t],
                         TerminationProtection |-> remoteProt[batch[b].ids[t]].termination,
                         StopProtection |-> remoteProt[batch[b].ids[t]].stop]]
    /\ described' = described \cup
                        {[id |-> batch[b].ids[t],
                          termination |-> remoteProt[batch[b].ids[t]].termination,
                          stop |-> remoteProt[batch[b].ids[t]].stop]}
    /\ UNCHANGED <<configVars, lockVars, command, filter, nRefresh, refresh, store, cache, queue,
                   viewVars, barVars, received, ticker, lastPatch, call, ret>>

\* the failure mutant: the goroutine returns without releasing its slot
TaskDescribeFail_KeepsSlot(b, t) ==
    /\ batch[b].active
    /\ t \in Tasks(b)
    /\ batch[b].task[t].pc = "describe"
    /\ batch' = [batch EXCEPT ![b].wg = @ - 1,
                              ![b].task[t].pc = "done",
                              ![b].task[t].err = TRUE]
    /\ UNCHANGED <<configVars, lockVars, command, filter, nRefresh, refresh, store, cache, queue,
                   viewVars, barVars, received, ghostVars>>

\* getProtectionAttributes fails: the slot is released, the failure logged and
\* the goroutine returns (wg.Done)
TaskDescribeFail(b, t) ==
    /\ batch[b].active
    /\ t \in Tasks(b)
    /\ batch[b].task[t].pc = "describe"
    /\ batch' = [batch EXCEPT ![b].sem = @ - 1,
                              ![b].wg = @ - 1,
                              ![b].task[t].pc = "done",
                              ![b].task[t].err = TRUE]
    /\ UNCHANGED <<configVars, lockVars, command, filter, nRefresh, refresh, store, cache, queue,
                   viewVars, barVars, received, ghostVars>>

\* `results <- status` has found its receiver: the task goes on to the cache
\* write
Sent(b, t) == [batch EXCEPT ![b].task[t].pc = "cache"]

\* the streaming mutant: a result is handed over only after the results of all
\* earlier IDs of the list
CanSend_InputOrder(b, t) ==
    /\ batch[b].active
    /\ t \in Tasks(b)
    /\ batch[b].task[t].pc = "send"
    /\ ~batch[b].closed
    /\ \A u \in 1..(t - 1) : batch[b].task[u].pc \in {"cache", "done"}

\* task t is blocked in `results <- status` on the open, unbuffered stream
CanSend(b, t) ==
    /\ batch[b].active
    /\ t \in Tasks(b)
    /\ batch[b].task[t].pc = "send"
    /\ ~batch[b].closed

\* the consumer goroutine of fetchProtectionsInBackground receives a result
ConsumerRecv(b, t) ==
    /\ CanSend(b, t)
    /\ batch[b].consumer = "recv"
    /\ batch' = [Sent(b, t) EXCEPT ![b].consumer = "forward",
                                   ![b].item = batch[b].task[t].result]
    /\ UNCHANGED <<configVars, lockVars, command, filter, nRefresh, refresh, store, cache, queue,
                   viewVars, barVars, received, ghostVars>>

\* the consumer hands the patch closure to QueueUpdateDraw, which returns once
\* the event loop has run the closure
ConsumerForward(b) ==
    /\ batch[b].consumer = "forward"
    /\ queue' = Append(queue, PatchItem(b, batch[b].item))
    /\ batch' = [batch EXCEPT ![b].consumer = "queued", ![b].item = NoStatus]
    /\ UNCHANGED <<configVars, lockVars, command, filter, nRefresh, refresh, store, cache, viewVars,
                   barVars, received, ghostVars>>

\* after the send: setCachedProtection, then the goroutine returns (wg.Done)
TaskSetCache(b, t) ==
    /\ batch[b].active
    /\ t \in Tasks(b)
    /\ batch[b].task[t].pc = "cache"
    /\ cache' = setCachedProtection(batch[b].ids[t],
                                    batch[b].task[t].result.TerminationProtection,
                                    batch[b].task[t].result.StopProtection)
    /\ batch' = [batch EXCEPT ![b].wg = @ - 1, ![b].task[t].pc = "done",
                              ![b].task[t].result = NoStatus]
    /\ UNCHANGED <<configVars, lockVars, command, filter, nRefresh, refresh, store, queue, viewVars,
                   barVars, received, ghostVars>>

\* the join mutant: the stream is closed without waiting for the tasks
Close_NoWait(b) ==
    /\ batch[b].active
    /\ ~batch[b].closed
    /\ batch' = [batch EXCEPT ![b].closed = TRUE]
    /\ UNCHANGED <<configVars, lockVars, command, filter, nRefresh, refresh, store, cache, queue,
                   viewVars, barVars, received, ghostVars>>

\* wg.Wait returns and the deferred close(results) runs
Close(b) ==
    /\ batch[b].active
    /\ ~batch[b].closed
    /\ batch[b].wg = 0
    /\ batch' = [batch EXCEPT ![b].closed = TRUE]
    /\ UNCHANGED <<configVars, lockVars, command, filter, nRefresh, refresh, store, cache, queue,
                   viewVars, barVars, received, ghostVars>>

\* the range loop over the closed stream ends
ConsumerExit(b) ==
    /\ batch[b].closed
    /\ batch[b].consumer = "recv"
    /\ batch' = [batch EXCEPT ![b].consumer = "exit"]
    /\ UNCHANGED <<configVars, lockVars, command, filter, nRefresh, refresh, store, cache, queue,
                   viewVars, barVars, received, ghostVars>>

\* a caller that only collects what it reads from the stream
Drain(b, t) ==
    /\ CanSend(b, t)
    /\ batch[b].consumer = "recv"
    /\ batch' = Sent(b, t)
    /\ received' = Append(received, batch[b].task[t].result)
    /\ UNCHANGED <<configVars, lockVars, command, filter, nRefresh, refresh, store, cache, queue,
                   viewVars, barVars, ghostVars>>

(***************************************************************************)
(* Specifications                                                          *)
(***************************************************************************)
TaskStep(b) ==
    \E t \in 1..MaxIds :
        \/ TaskAcquire(b, t)
        \/ TaskDescribeOk(b, t)
        \/ TaskDescribeFail(b, t)
        \/ TaskSetCache(b, t)

Next ==
    \/ Start
    \/ ManualRefresh
    \/ TimerTick
    \/ TimerRefresh
    \/ \E f \in Filters : SetFilter(f)
    \/ \E row \in 1..Cardinality(Fleet) : MoveCursor(row)
    \/ \E r \in Refreshes :
        \/ ListFail(r)
        \/ \E raw \in Listings(expertMode) : ListOk(r, raw)
        \/ Filter(r)
        \/ Publish(r)
        \/ Enrich(r)
        \/ TaskStep(r)
        \/ \E t \in 1..MaxIds : ConsumerRecv(r, t)
        \/ ConsumerForward(r)
        \/ Close(r)
        \/ ConsumerExit(r)
    \/ RunQueued

\* the console: operator, ticker, refreshes, enrichment, render loop
Spec == Init /\ [][Next]_vars

\* the ID lists of a FetchProtectionStatuses call, up to renaming of the IDs:
\* the first new ID is a, the next b, the next c
IdLists ==
    {ids \in UNION {[1..n -> FetchIDs] : n \in 0..MaxIds} :
        \A i \in 1..Len(ids) :
            \/ ids[i] = S_a
            \/ ids[i] = S_b /\ \E j \in 1..(i - 1) : ids[j] = S_a
            \/ ids[i] = S_c /\ \E j \in 1..(i - 1) : ids[j] = S_b}

\* one FetchProtectionStatuses(ctx, ids, workerLimit) call on a fresh client
InitFetch ==
    /\ InitCommon
    /\ expertMode = TRUE
    /\ \E ids \in IdLists, k \in 1..MaxLimit :
          batch = [b \in Refreshes |-> IF b = 1 THEN NewBatch(ids, k) ELSE IdleBatch]

NextFetch ==
    \/ TaskStep(1)
    \/ \E t \in 1..MaxIds : Drain(1, t)
    \/ Close(1)
    \/ ConsumerExit(1)

SpecFetch == InitFetch /\ [][NextFetch]_vars

\* the caller cancels the context it passed (UI.Stop: ui.cancel())
Cancel ==
    /\ ~ctxDone
    /\ ctxDone' = TRUE
    /\ UNCHANGED <<expertMode, remoteProt, lockVars, command, filter, nRefresh, refresh, store, cache,
                   queue, viewVars, barVars, batch, received, ghostVars>>

\* one FetchProtectionStatuses call whose context may be cancelled at any time
SpecFetchCancel == InitFetch /\ [][NextFetch \/ Cancel]_vars

\* every goroutine that can run does run, every gateway call returns, and the
\* caller keeps reading the stream
FairFetch ==
    /\ \A t \in 1..MaxIds :
          /\ WF_vars(TaskAcquire(1, t))
          /\ WF_vars(TaskDescribeOk(1, t) \/ TaskDescribeFail(1, t))
          /\ WF_vars(Drain(1, t))
          /\ WF_vars(TaskSetCache(1, t))
    /\ WF_vars(Close(1))
    /\ WF_vars(ConsumerExit(1))

SpecFetchFair == InitFetch /\ [][NextFetch]_vars /\ FairFetch

\* one FetchProtectionStatuses(ctx, ids, workerLimit) call with any limit,
\* valid or not
InitFetchAny ==
    /\ InitCommon
    /\ expertMode = TRUE
    /\ \E ids \in IdLists, k \in (0 - 1)..MaxLimit :
          batch = [b \in Refreshes |-> IF b = 1 THEN NewBatch(ids, k) ELSE IdleBatch]

\* make(chan struct{}, workerLimit) with a negative size panics in the
\* goroutine of FetchProtectionStatuses, before any task is started: the
\* process ends
MakeSemPanics ==
    /\ batch[1].limit < 0
    /\ batch[1].consumer # "panic"
    /\ batch' = [batch EXCEPT ![1].consumer = "panic"]
    /\ UNCHANGED <<configVars, lockVars, command, filter, nRefresh, refresh, store, cache, queue,
                   viewVars, barVars, received, ghostVars>>

\* the call with any limit, every goroutine that can run does run
SpecFetchAny ==
    /\ InitFetchAny
    /\ [][(batch[1].limit >= 0 /\ NextFetch) \/ MakeSemPanics]_vars
    /\ FairFetch

(***************************************************************************)
(* InstancesView called directly                                           *)
(***************************************************************************)
\* an instance as ListInstances hands it on: protections unknown, or known
\* with the values the gateway reports
withProtection(instance, known) ==
    [instance EXCEPT !.TerminationProtection = known /\ InitialProt[instance.ID].termination,
                     !.StopProtection = known /\ InitialProt[instance.ID].stop,
                     !.TerminationProtectionKnown = known,
                     !.StopProtectionKnown = known]

\* the lists handed to UpdateInstances: any listing, each instance with known
\* or unknown protections
ViewLists ==
    UNION {{[i \in 1..Len(l) |-> withProtection(l[i], k[i])] :
               k \in [1..Len(l) -> BOOLEAN]} : l \in RawListings}

\* v.UpdateInstances(instances)
ViewUpdateInstances(instances) ==
    LET u == UpdateInstances(instances)
    IN  /\ viewInstances' = u.instances
        /\ table' = u.table
        /\ tableSel' = u.tableSel
        /\ selected' = u.selected
        /\ call' = Call("UpdateInstances", S_empty, instances, FALSE, FALSE)
        /\ ret' = <<>>
        /\ UNCHANGED <<configVars, lockVars, command, filter, nRefresh, refresh, store, cache, queue,
                       barVars, batch, received, ticker, lastPatch, described>>

\* v.UpdateProtection(instanceID, terminationProtection, stopProtection)
ViewUpdateProtection(instanceID, terminationProtection, stopProtection) ==
    LET u == UpdateProtection(viewInstances, table, instanceID,
                              terminationProtection, stopProtection)
    IN  /\ viewInstances' = u.instances
        /\ table' = u.table
        /\ call' = Call("UpdateProtection", instanceID, <<>>,
                        terminationProtection, stopProtection)
        /\ ret' = <<>>
        /\ UNCHANGED <<configVars, lockVars, command, filter, nRefresh, refresh, store, cache, queue,
                       selected, tableSel, barVars, batch, received, ticker,
                       lastPatch, described>>

\* v.GetSelectedInstance(): ret is empty for nil, else holds the instance
ViewGetSelectedInstance ==
    /\ selected' = GetSelectedInstance.selected
    /\ call' = Call("GetSelectedInstance", S_empty, <<>>, FALSE, FALSE)
    /\ ret' = IF GetSelectedInstance.index = 0 THEN <<>>
              ELSE <<viewInstances[GetSelectedInstance.index]>>
    /\ UNCHANGED <<configVars, lockVars, command, filter, nRefresh, refresh, store, cache, queue,
                   viewInstances, table, tableSel, barVars, batch, received, ticker,
                   lastPatch, described>>

\* the operator moves the cursor of the table to another data row
ViewSelect(row) ==
    /\ row \in 1..Len(table)
    /\ row # tableSel
    /\ tableSel' = row
    /\ call' = Call("Select", S_empty, <<>>, FALSE, FALSE)
    /\ ret' = <<>>
    /\ UNCHANGED <<configVars, lockVars, command, filter, nRefresh, refresh, store, cache, queue,
                   viewInstances, selected, table, barVars, batch, received, ticker,
                   lastPatch, described>>

NextView ==
    \/ \E instances \in ViewLists : ViewUpdateInstances(instances)
    \/ \E id \in FleetIDs, term, stop \in BOOLEAN : ViewUpdateProtection(id, term, stop)
    \/ ViewGetSelectedInstance
    \/ \E row \in 1..Cardinality(Fleet) : ViewSelect(row)

\* an InstancesView (with or without protection columns) under any sequence
\* of calls
SpecView == Init /\ [][NextView]_vars

(***************************************************************************)
(* Functions called directly                                               *)
(***************************************************************************)
\* ui.filter = f; ui.applyFilter(instances)
CallApplyFilter(f, instances) ==
    /\ filter' = f
    /\ call' = Call("applyFilter", f, instances, FALSE, FALSE)
    /\ ret' = applyFilter(f, instances)
    /\ UNCHANGED <<configVars, lockVars, command, nRefresh, refresh, store, cache, queue, viewVars,
                   barVars, batch, received, ticker, lastPatch, described>>

\* c.ListInstances(ctx, useCachedProtections) when DescribeInstances answers
\* with raw
CallListInstances(raw) ==
    /\ \E sorted \in SortResults([i \in 1..Len(raw) |->
                                     convertToModelInstance(raw[i], expertMode)]) :
          /\ store' = sorted
          /\ ret' = sorted
    /\ call' = Call("ListInstances", S_empty, raw, FALSE, FALSE)
    /\ UNCHANGED <<configVars, lockVars, command, filter, nRefresh, refresh, cache, queue, viewVars,
                   barVars, batch, received, ticker, lastPatch, described>>

\* time.Second, with durations counted in milliseconds
Second == 1000

\* the period startRefreshTicker would use if it took the interval as it is
refreshPeriod_NoDefault(interval) == interval

\* the period of the ticker startRefreshTicker creates
refreshPeriod(interval) ==
    IF interval <= 0 THEN 30 * Second ELSE interval

\* ui.startRefreshTicker() with config.AWS.RefreshInterval = interval: ret
\* holds the period handed to time.NewTicker
CallStartRefreshTicker(interval) ==
    /\ call' = Call("startRefreshTicker", S_empty, <<interval>>, FALSE, FALSE)
    /\ ret' = <<refreshPeriod(interval)>>
    /\ UNCHANGED <<configVars, lockVars, command, filter, nRefresh, refresh, store, cache, queue,
                   viewVars, barVars, batch, received, ticker, lastPatch, described>>

\* the filter texts tried: none, "RUN", "web", "t2", "10.1", "i-1", "Off"; the
\* refresh intervals tried: negative, zero, below and above the default
NextCalls ==
    \/ \E f \in {S_empty, S_RUN, S_web, S_t2, S_ip, S_i1, S_Off},
          instances \in CallListings : CallApplyFilter(f, instances)
    \/ \E raw \in CallListings : CallListInstances(raw)
    \/ \E interval \in {0 - Second, 0 - 1, 0, 1, Second, 30 * Second, 60 * Second} :
          CallStartRefreshTicker(interval)

\* the list functions of UI and EC2Client under any sequence of calls
SpecCalls == Init /\ [][NextCalls]_vars

(***************************************************************************)
(* The attribute cache and the launch of enrichment, called directly       *)
(***************************************************************************)
\* c.setCachedProtection(instanceID, term, stop)
CallSetCachedProtection(instanceID, term, stop) ==
    /\ cache' = setCachedProtection(instanceID, term, stop)
    /\ call' = Call("setCachedProtection", instanceID, <<>>, term, stop)
    /\ ret' = <<>>
    /\ UNCHANGED <<configVars, lockVars, command, filter, nRefresh, refresh, store, queue, viewVars,
                   barVars, batch, received, ticker, lastPatch, described>>

\* c.getCachedProtection(instanceID): ret holds the triple returned
CallGetCachedProtection(instanceID) ==
    /\ call' = Call("getCachedProtection", instanceID, <<>>, FALSE, FALSE)
    /\ ret' = <<getCachedProtection(instanceID)>>
    /\ UNCHANGED <<configVars, lockVars, command, filter, nRefresh, refresh, store, cache, queue,
                   viewVars, barVars, batch, received, ticker, lastPatch, described>>

\* refresh 1 has listed a part of the fleet on a client with an empty cache
\* and its snapshot closure has just been run
InitCache ==
    /\ expertMode \in BOOLEAN
    /\ thread = [t \in Threads |-> NoThread]
    /\ lock = NoLocks
    /\ command = NoCommands
    /\ remoteProt = InitialProt
    /\ cache = EmptyCache
    /\ filter = S_empty
    /\ nRefresh = 1
    /\ queue = <<>>
    /\ received = <<>>
    /\ batch = [b \in Refreshes |-> IdleBatch]
    /\ ticker = 0
    /\ lastPatch = "none"
    /\ described = {}
    /\ call = NoCall
    /\ ret = <<>>
    /\ ctxDone = FALSE
    /\ \E raw \in RawListings :
          \E sorted \in SortResults(raw) :
             /\ store = sorted
             /\ refresh = [r \in Refreshes |->
                             IF r = 1
                             THEN [IdleRefresh EXCEPT !.pc = "enrich",
                                                      !.filtered = sorted,
                                                      !.applied = TRUE]
                             ELSE IdleRefresh]
             /\ viewInstances = sorted
             /\ table = [i \in 1..Len(sorted) |-> RenderRow(sorted[i], expertMode)]
             /\ tableSel = IF sorted = <<>> THEN 0 ELSE 1
             /\ selected = 0
             /\ status = Msg("Found instances", Len(sorted))
             /\ overview = [total |-> Len(sorted), running |-> countRunning(sorted),
                            stopped |-> countStopped(sorted)]

NextCache ==
    \/ \E id \in FleetIDs, term, stop \in BOOLEAN : CallSetCachedProtection(id, term, stop)
    \/ \E id \in FleetIDs : CallGetCachedProtection(id)
    \/ Enrich(1)

\* the cache under any sequence of calls, and the launch of enrichment over it
SpecCache == InitCache /\ [][NextCache]_vars

(***************************************************************************)
(* Shutdown                                                                *)
(***************************************************************************)
\* key 'q' on the main page: UI.Stop cancels ui.ctx, stops the ticker and
\* stops the application
Stop ==
    /\ nRefresh >= 1
    /\ Cancel

\* a step of a goroutine started by a refresh
RefreshStep(r) ==
    \/ ListFail(r)
    \/ \E raw \in Listings(expertMode) : ListOk(r, raw)
    \/ Filter(r)
    \/ Publish(r)
    \/ Enrich(r)
    \/ TaskStep(r)
    \/ \E t \in 1..MaxIds : ConsumerRecv(r, t)
    \/ ConsumerForward(r)
    \/ Close(r)
    \/ ConsumerExit(r)

\* the console with shutdown: once Stop has run, the event loop handles no key
\* and runs no queued closure, and the ticker goroutine's select takes
\* ctx.Done(); goroutines that are under way go on
NextStop ==
    \/ Stop
    \/ ~ctxDone /\ Start
    \/ ~ctxDone /\ ManualRefresh
    \/ ~ctxDone /\ TimerTick
    \/ ~ctxDone /\ \E f \in Filters : SetFilter(f)
    \/ ~ctxDone /\ \E row \in 1..Cardinality(Fleet) : MoveCursor(row)
    \/ ~ctxDone /\ RunQueued
    \/ TimerRefresh
    \/ \E r \in Refreshes : RefreshStep(r)

SpecStop == Init /\ [][NextStop]_vars

\* shutdown where every goroutine that can take a step takes one, every gateway
\* call returns and the ticker goroutine is scheduled; nothing is assumed of
\* the event loop
SpecStopFair ==
    /\ SpecStop
    /\ WF_vars(TimerRefresh)
    /\ \A r \in Refreshes : WF_vars(RefreshStep(r))

(***************************************************************************)
(* The detail view                                                         *)
(***************************************************************************)
\* the two protection lines of the detail text
DetailText(inst) ==
    [termination |-> formatProtectionStatus(inst.TerminationProtection,
                                            inst.TerminationProtectionKnown),
     stop |-> formatProtectionStatus(inst.StopProtection, inst.StopProtectionKnown)]

\* inst with the protections set and known
withKnown(inst, term, stop) ==
    [inst EXCEPT !.TerminationProtection = term, !.StopProtection = stop,
                 !.TerminationProtectionKnown = TRUE, !.StopProtectionKnown = TRUE]

\* Enter on the selected row: ShowInstanceDetails(v.instances[row-1]). With a
\* cache entry the detail is shown at once; without one the render thread
\* calls RefreshProtectionStatus and waits. thread[1] is the render thread, its
\* list holds the copy inst.
ShowInstanceDetails ==
    /\ nRefresh >= 1
    /\ thread[1].op = "idle"
    /\ tableSel \in 1..Len(viewInstances)
    /\ LET inst == viewInstances[tableSel]
           c == getCachedProtection(inst.ID)
       IN  /\ call' = Call("ShowInstanceDetails", inst.ID, <<inst>>, FALSE, FALSE)
           /\ IF c.ok
              THEN /\ ret' = <<DetailText(withKnown(inst, c.termination, c.stop))>>
                   /\ UNCHANGED thread
              ELSE /\ ret' = <<>>
                   /\ thread' = [thread EXCEPT
                          ![1] = [NoThread EXCEPT !.op = "ShowInstanceDetails",
                                                  !.pc = "RefreshProtectionStatus",
                                                  !.id = inst.ID, !.list = <<inst>>]]
    /\ UNCHANGED <<configVars, lock, command, filter, nRefresh, refresh, store, cache, queue,
                   viewVars, barVars, batch, received, ticker, lastPatch, described>>

\* RefreshProtectionStatus returns an error: SetError, and the detail is built
\* from the copy as it is (err notes the outcome of the last describe)
ShowInstanceDetailsFail ==
    /\ thread[1].pc = "RefreshProtectionStatus"
    /\ status' = Msg("Failed to load protections", 0)
    /\ ret' = <<DetailText(thread[1].list[1])>>
    /\ thread' = [thread EXCEPT ![1] = [NoThread EXCEPT !.err = TRUE]]
    /\ UNCHANGED <<configVars, lock, command, filter, nRefresh, refresh, store, cache, queue,
                   viewVars, overview, batch, received, ticker, lastPatch, described, call>>

\* RefreshProtectionStatus returns the pair it has put into the cache:
\* UpdateProtection patches the row, the detail is built from the copy with
\* the pair
ShowInstanceDetailsOk ==
    /\ thread[1].pc = "RefreshProtectionStatus"
    /\ LET id == thread[1].id
           term == remoteProt[id].termination
           stop == remoteProt[id].stop
           u == UpdateProtection(viewInstances, table, id, term, stop)
       IN  /\ cache' = setCachedProtection(id, term, stop)
           /\ viewInstances' = u.instances
           /\ table' = u.table
           /\ ret' = <<DetailText(withKnown(thread[1].list[1], term, stop))>>
           /\ described' = described \cup {[id |-> id, termination |-> term, stop |-> stop]}
    /\ thread' = [thread EXCEPT ![1] = NoThread]
    /\ UNCHANGED <<configVars, lock, command, filter, nRefresh, refresh, store, queue, selected,
                   tableSel, barVars, batch, received, ticker, lastPatch, call>>

\* the console with the detail view: while the render thread waits in
\* ShowInstanceDetails no key is handled and no queued closure is run; the
\* ticker and the goroutines go on
NextDetail ==
    \/ thread[1].op = "idle" /\ Start
    \/ thread[1].op = "idle" /\ ManualRefresh
    \/ thread[1].op = "idle" /\ \E f \in Filters : SetFilter(f)
    \/ thread[1].op = "idle" /\ \E row \in 1..Cardinality(Fleet) : MoveCursor(row)
    \/ thread[1].op = "idle" /\ RunQueued
    \/ ShowInstanceDetails
    \/ ShowInstanceDetailsFail
    \/ ShowInstanceDetailsOk
    \/ TimerTick
    \/ TimerRefresh
    \/ \E r \in Refreshes : RefreshStep(r)

SpecDetail == Init /\ [][NextDetail]_vars

(***************************************************************************)
(* Lifecycle commands                                                      *)
(***************************************************************************)
\* a confirmation dialog is the front page: the keys of the main page are off
ModalOpen == command.dialog.op # "none"

\* everything a key handler of the main page leaves alone, but for the
\* remembered selection, the status bar and the dialog
commandFrame ==
    <<configVars, lockVars, filter, nRefresh, refresh, store, cache, queue,
      viewInstances, table, tableSel, overview, batch, received, ghostVars>>

\* the handler without a state guard: GetSelectedInstance, then
\* ShowConfirmDialog with a closure that holds the pointer to the instance
handleTerminateInstance ==
    /\ nRefresh >= 1
    /\ ~ModalOpen
    /\ LET g == GetSelectedInstance
       IN  IF g.index = 0
           THEN /\ status' = Msg("No instance selected", 0)
                /\ UNCHANGED <<selected, command>>
           ELSE /\ selected' = g.selected
                /\ command' = [command EXCEPT !.dialog =
                                  [op |-> "terminate", id |-> viewInstances[g.index].ID,
                                   state |-> viewInstances[g.index].State]]
                /\ UNCHANGED status
    /\ UNCHANGED commandFrame

\* the guard mutant: start is offered whatever the shown state
handleStartInstance_NoGuard ==
    /\ nRefresh >= 1
    /\ ~ModalOpen
    /\ LET g == GetSelectedInstance
       IN  IF g.index = 0
           THEN /\ status' = Msg("No instance selected", 0)
                /\ UNCHANGED <<selected, command>>
           ELSE /\ selected' = g.selected
                /\ command' = [command EXCEPT !.dialog =
                                  [op |-> "start", id |-> viewInstances[g.index].ID,
                                   state |-> viewInstances[g.index].State]]
                /\ UNCHANGED status
    /\ UNCHANGED commandFrame

\* key 's'
handleStartInstance ==
    /\ nRefresh >= 1
    /\ ~ModalOpen
    /\ LET g == GetSelectedInstance
       IN  IF g.index = 0
           THEN /\ status' = Msg("No instance selected", 0)
                /\ UNCHANGED <<selected, command>>
           ELSE /\ selected' = g.selected
                /\ IF IsRunning(viewInstances[g.index])
                   THEN /\ status' = Msg("Instance is already running", 0)
                        /\ UNCHANGED command
                   ELSE /\ command' = [command EXCEPT !.dialog =
                                  [op |-> "start", id |-> viewInstances[g.index].ID,
                                   state |-> viewInstances[g.index].State]]
                        /\ UNCHANGED status
    /\ UNCHANGED commandFrame

\* key 'p'
handleStopInstance ==
    /\ nRefresh >= 1
    /\ ~ModalOpen
    /\ LET g == GetSelectedInstance
       IN  IF g.index = 0
           THEN /\ status' = Msg("No instance selected", 0)
                /\ UNCHANGED <<selected, command>>
           ELSE /\ selected' = g.selected
                /\ IF IsStopped(viewInstances[g.index])
                   THEN /\ status' = Msg("Instance is already stopped", 0)
                        /\ UNCHANGED command
                   ELSE /\ command' = [command EXCEPT !.dialog =
                                  [op |-> "stop", id |-> viewInstances[g.index].ID,
                                   state |-> viewInstances[g.index].State]]
                        /\ UNCHANGED status
    /\ UNCHANGED commandFrame

\* key 'b'
handleRebootInstance ==
    /\ nRefresh >= 1
    /\ ~ModalOpen
    /\ LET g == GetSelectedInstance
       IN  IF g.index = 0
           THEN /\ status' = Msg("No instance selected", 0)
                /\ UNCHANGED <<selected, command>>
           ELSE /\ selected' = g.selected
                /\ IF ~IsRunning(viewInstances[g.index])
                   THEN /\ status' = Msg("Instance must be running to reboot", 0)
                        /\ UNCHANGED command
                   ELSE /\ command' = [command EXCEPT !.dialog =
                                  [op |-> "reboot", id |-> viewInstances[g.index].ID,
                                   state |-> viewInstances[g.index].State]]
                        /\ UNCHANGED status
    /\ UNCHANGED commandFrame

\* the target mutant: the call goes to the instance under the cursor when Yes
\* is pressed
ConfirmYes_UsesCursor ==
    /\ ModalOpen
    /\ Len(command.calls) < MaxCommands
    /\ tableSel \in 1..Len(viewInstances)
    /\ status' = Msg("Working", 0)
    /\ command' = [dialog |-> NoDialog,
                   calls |-> Append(command.calls,
                                    [op |-> command.dialog.op,
                                     id |-> viewInstances[tableSel].ID,
                                     state |-> command.dialog.state, pc |-> "call"])]
    /\ UNCHANGED <<commandFrame, selected>>

\* button Yes: the page is removed and onConfirm runs: SetStatus("Starting
\* instance ...") and the goroutine that makes the gateway call for the
\* instance the closure points to
ConfirmYes ==
    /\ ModalOpen
    /\ Len(command.calls) < MaxCommands
    /\ status' = Msg("Working", 0)
    /\ command' = [dialog |-> NoDialog,
                   calls |-> Append(command.calls,
                                    [op |-> command.dialog.op, id |-> command.dialog.id,
                                     state |-> command.dialog.state, pc |-> "call"])]
    /\ UNCHANGED <<commandFrame, selected>>

\* button No, or Escape: the page is removed
ConfirmNo ==
    /\ ModalOpen
    /\ command' = [command EXCEPT !.dialog = NoDialog]
    /\ UNCHANGED <<commandFrame, selected, status>>

\* the closure a command's goroutine queues when its call has returned
CommandItem(kind, i) == [NoItem EXCEPT !.kind = kind, !.r = i]

\* the gateway call returns an error: the goroutine queues the SetError
\* closure and ends
MutateFail(i) ==
    /\ i \in 1..Len(command.calls)
    /\ command.calls[i].pc = "call"
    /\ command' = [command EXCEPT !.calls[i].pc = "failed"]
    /\ queue' = Append(queue, CommandItem("error", i))
    /\ UNCHANGED <<configVars, lockVars, filter, nRefresh, refresh, store, cache,
                   viewVars, barVars, batch, received, ghostVars>>

\* the gateway call succeeds: the goroutine queues the closure that sets the
\* status and calls RefreshInstances
MutateOk(i) ==
    /\ i \in 1..Len(command.calls)
    /\ command.calls[i].pc = "call"
    /\ command' = [command EXCEPT !.calls[i].pc = "ok"]
    /\ queue' = Append(queue, CommandItem("done", i))
    /\ UNCHANGED <<configVars, lockVars, filter, nRefresh, refresh, store, cache,
                   viewVars, barVars, batch, received, ghostVars>>

\* the event loop runs the closure of a failed command: SetError
RunCommandError ==
    /\ queue # <<>>
    /\ Head(queue).kind = "error"
    /\ queue' = Tail(queue)
    /\ status' = Msg("Error", 0)
    /\ UNCHANGED <<configVars, lockVars, command, filter, nRefresh, refresh, store,
                   cache, viewVars, overview, batch, received, ghostVars>>

\* the event loop runs the closure of a command that succeeded:
\* SetStatus("Started instance ..."), then RefreshInstances
RunCommandDone ==
    /\ queue # <<>>
    /\ Head(queue).kind = "done"
    /\ queue' = Tail(queue)
    /\ RefreshInstances
    /\ UNCHANGED <<configVars, lockVars, command, filter, store, cache, viewInstances,
                   table, tableSel, overview, batch, received, ghostVars>>

\* the console with the lifecycle commands and without enrichment: while a
\* dialog is open the keys of the main page are off; the event loop, the ticker
\* and the refresh goroutines go on
NextCommand ==
    \/ ~ModalOpen /\ Start
    \/ ~ModalOpen /\ ManualRefresh
    \/ ~ModalOpen /\ \E f \in Filters : SetFilter(f)
    \/ ~ModalOpen /\ \E row \in 1..Cardinality(Fleet) : MoveCursor(row)
    \/ handleStartInstance
    \/ handleStopInstance
    \/ handleRebootInstance
    \/ handleTerminateInstance
    \/ ConfirmYes
    \/ ConfirmNo
    \/ \E i \in 1..MaxCommands : MutateFail(i)
    \/ \E i \in 1..MaxCommands : MutateOk(i)
    \/ RunCommandError
    \/ RunCommandDone
    \/ queue # <<>> /\ Head(queue).kind \in {"snapshot", "patch"} /\ RunQueued
    \/ TimerTick
    \/ TimerRefresh
    \/ \E r \in Refreshes :
        \/ ListFail(r)
        \/ \E raw \in Listings(expertMode) : ListOk(r, raw)
        \/ Filter(r)
        \/ Publish(r)
        \/ Enrich(r)

\* the commands do not read the protections: enrichment is turned off
InitCommand ==
    /\ Init
    /\ expertMode = FALSE

SpecCommand == InitCommand /\ [][NextCommand]_vars

(***************************************************************************)
(* The mutexes: EC2Client and UI methods called from several goroutines    *)
(***************************************************************************)
\* everything a step of the lock harness leaves alone, but for the store, the
\* cache, the remembered selection and the status bar
threadFrame ==
    <<configVars, command, filter, nRefresh, refresh, queue, viewInstances, table,
      tableSel, overview, batch, received, ghostVars>>

\* the mutexes goroutine t holds
Held(t) ==
    {m \in {"protectionsW", "instancesM", "refreshMutex", "viewM"} : lock[m] = t}
        \cup (IF t \in lock.protectionsR THEN {"protectionsR"} ELSE {})

\* the locking mutant: ListInstances takes instancesM before it calls the
\* gateway
ListInstancesCall_UnderLock(t) ==
    /\ thread[t].op = "idle"
    /\ lock.instancesM = 0
    /\ lock' = [lock EXCEPT !.instancesM = t]
    /\ thread' = [thread EXCEPT ![t].op = "ListInstances", ![t].pc = "DescribeInstances"]
    /\ UNCHANGED <<threadFrame, store, cache, selected, status>>

\* c.ListInstances(ctx, expertMode): client.DescribeInstances is called
ListInstancesCall(t) ==
    /\ thread[t].op = "idle"
    /\ thread' = [thread EXCEPT ![t].op = "ListInstances", ![t].pc = "DescribeInstances"]
    /\ UNCHANGED <<threadFrame, lock, store, cache, selected, status>>

\* DescribeInstances fails: ListInstances returns the error
ListInstancesFail(t) ==
    /\ thread[t].pc = "DescribeInstances"
    /\ thread' = [thread EXCEPT ![t].pc = "done", ![t].err = TRUE]
    /\ UNCHANGED <<threadFrame, lock, store, cache, selected, status>>

\* DescribeInstances answers with raw: the conversion loop starts
ListInstancesOk(t, raw) ==
    /\ thread[t].pc = "DescribeInstances"
    /\ thread' = [thread EXCEPT ![t].list = raw, ![t].i = 1,
                                ![t].pc = IF raw = <<>> THEN "sort" ELSE "RLock"]
    /\ UNCHANGED <<threadFrame, lock, store, cache, selected, status>>

\* getCachedProtection of the loop: protectionsM.RLock()
ListInstancesRLock(t) ==
    /\ thread[t].op = "ListInstances"
    /\ thread[t].pc = "RLock"
    /\ lock.protectionsW = 0
    /\ lock' = [lock EXCEPT !.protectionsR = @ \cup {t}]
    /\ thread' = [thread EXCEPT ![t].pc = "convert"]
    /\ UNCHANGED <<threadFrame, store, cache, selected, status>>

\* the map is read, the lock released on return and the instance converted
ListInstancesConvert(t) ==
    /\ thread[t].op = "ListInstances"
    /\ thread[t].pc = "convert"
    /\ lock' = [lock EXCEPT !.protectionsR = @ \ {t}]
    /\ LET i == thread[t].i
       IN  thread' = [thread EXCEPT
               ![t].list[i] = convertToModelInstance(thread[t].list[i], expertMode),
               ![t].i = i + 1,
               ![t].pc = IF i = Len(thread[t].list) THEN "sort" ELSE "RLock"]
    /\ UNCHANGED <<threadFrame, store, cache, selected, status>>

\* sort.Slice on the local slice
ListInstancesSort(t) ==
    /\ thread[t].op = "ListInstances"
    /\ thread[t].pc = "sort"
    /\ \E sorted \in SortResults(thread[t].list) :
          thread' = [thread EXCEPT ![t].list = sorted, ![t].pc = "Lock"]
    /\ UNCHANGED <<threadFrame, lock, store, cache, selected, status>>

\* c.instancesM.Lock()
ListInstancesLock(t) ==
    /\ thread[t].op = "ListInstances"
    /\ thread[t].pc = "Lock"
    /\ lock.instancesM = 0
    /\ lock' = [lock EXCEPT !.instancesM = t]
    /\ thread' = [thread EXCEPT ![t].pc = "store"]
    /\ UNCHANGED <<threadFrame, store, cache, selected, status>>

\* the publication mutant: the new listing is appended to the stored one
ListInstancesStore_Appends(t) ==
    /\ thread[t].op = "ListInstances"
    /\ thread[t].pc = "store"
    /\ store' = store \o thread[t].list
    /\ lock' = [lock EXCEPT !.instancesM = 0]
    /\ thread' = [thread EXCEPT ![t].pc = "done"]
    /\ UNCHANGED <<threadFrame, cache, selected, status>>

\* c.instances = instances; c.instancesM.Unlock(); return instances, nil
ListInstancesStore(t) ==
    /\ thread[t].op = "ListInstances"
    /\ thread[t].pc = "store"
    /\ store' = thread[t].list
    /\ lock' = [lock EXCEPT !.instancesM = 0]
    /\ thread' = [thread EXCEPT ![t].pc = "done"]
    /\ UNCHANGED <<threadFrame, cache, selected, status>>

\* c.GetInstances(): c.instancesM.Lock()
GetInstancesLock(t) ==
    /\ thread[t].op = "idle"
    /\ lock.instancesM = 0
    /\ lock' = [lock EXCEPT !.instancesM = t]
    /\ thread' = [thread EXCEPT ![t].op = "GetInstances", ![t].pc = "return"]
    /\ UNCHANGED <<threadFrame, store, cache, selected, status>>

\* return c.instances, and the deferred Unlock
GetInstancesReturn(t) ==
    /\ thread[t].op = "GetInstances"
    /\ thread[t].pc = "return"
    /\ lock' = [lock EXCEPT !.instancesM = 0]
    /\ thread' = [thread EXCEPT ![t].list = store, ![t].pc = "done"]
    /\ UNCHANGED <<threadFrame, store, cache, selected, status>>

\* c.RefreshProtectionStatus(ctx, id): getProtectionAttributes makes its first
\* DescribeInstanceAttribute call
RefreshProtectionStatusCall(t, id) ==
    /\ thread[t].op = "idle"
    /\ thread' = [thread EXCEPT ![t].op = "RefreshProtectionStatus", ![t].id = id,
                                ![t].pc = "DescribeTermination"]
    /\ UNCHANGED <<threadFrame, lock, store, cache, selected, status>>

\* a DescribeInstanceAttribute call fails: the error is returned
DescribeAttributeFail(t) ==
    /\ thread[t].pc \in {"DescribeTermination", "DescribeStop"}
    /\ thread' = [thread EXCEPT ![t].pc = "done", ![t].err = TRUE, ![t].term = FALSE]
    /\ UNCHANGED <<threadFrame, lock, store, cache, selected, status>>

\* the first call answers: the second one is made
DescribeTerminationOk(t) ==
    /\ thread[t].pc = "DescribeTermination"
    /\ thread' = [thread EXCEPT ![t].term = remoteProt[thread[t].id].termination,
                                ![t].pc = "DescribeStop"]
    /\ UNCHANGED <<threadFrame, lock, store, cache, selected, status>>

\* the second call answers: setCachedProtection, protectionsM.Lock()
DescribeStopOk(t) ==
    /\ thread[t].pc = "DescribeStop"
    /\ thread' = [thread EXCEPT ![t].stop = remoteProt[thread[t].id].stop,
                                ![t].pc = "Lock"]
    /\ described' = described \cup {[id |-> thread[t].id, termination |-> thread[t].term,
                                      stop |-> remoteProt[thread[t].id].stop]}
    /\ UNCHANGED <<configVars, command, filter, nRefresh, refresh, queue, viewInstances, table,
                   tableSel, overview, batch, received, ticker, lastPatch, call, ret,
                   lock, store, cache, selected, status>>

\* c.protectionsM.Lock()
RefreshProtectionStatusLock(t) ==
    /\ thread[t].op = "RefreshProtectionStatus"
    /\ thread[t].pc = "Lock"
    /\ lock.protectionsW = 0
    /\ lock.protectionsR = {}
    /\ lock' = [lock EXCEPT !.protectionsW = t]
    /\ thread' = [thread EXCEPT ![t].pc = "store"]
    /\ UNCHANGED <<threadFrame, store, cache, selected, status>>

\* the map entry is written, the lock released, the pair returned
RefreshProtectionStatusStore(t) ==
    /\ thread[t].op = "RefreshProtectionStatus"
    /\ thread[t].pc = "store"
    /\ cache' = setCachedProtection(thread[t].id, thread[t].term, thread[t].stop)
    /\ lock' = [lock EXCEPT !.protectionsW = 0]
    /\ thread' = [thread EXCEPT ![t].pc = "done"]
    /\ UNCHANGED <<threadFrame, store, selected, status>>

\* ui.RefreshInstances(): GetSelectedInstance takes the view's instancesM
RefreshInstancesViewLock(t) ==
    /\ thread[t].op = "idle"
    /\ lock.viewM = 0
    /\ lock' = [lock EXCEPT !.viewM = t]
    /\ thread' = [thread EXCEPT ![t].op = "RefreshInstances", ![t].pc = "selected"]
    /\ UNCHANGED <<threadFrame, store, cache, selected, status>>

\* GetSelectedInstance returns; ui.refreshMutex.Lock()
RefreshInstancesLock(t) ==
    /\ thread[t].op = "RefreshInstances"
    /\ thread[t].pc = "selected"
    /\ lock.refreshMutex = 0
    /\ selected' = GetSelectedInstance.selected
    /\ lock' = [lock EXCEPT !.viewM = 0, !.refreshMutex = t]
    /\ thread' = [thread EXCEPT ![t].pc = "go"]
    /\ UNCHANGED <<threadFrame, store, cache, status>>

\* SetStatus, the go statement (goroutine u starts with ListInstances) and the
\* deferred Unlock
RefreshInstancesGo(t, u) ==
    /\ thread[t].op = "RefreshInstances"
    /\ thread[t].pc = "go"
    /\ thread[u].op = "idle"
    /\ status' = Msg("Refreshing instances...", 0)
    /\ lock' = [lock EXCEPT !.refreshMutex = 0]
    /\ thread' = [thread EXCEPT ![t].pc = "done",
                                ![u].op = "ListInstances", ![u].pc = "DescribeInstances"]
    /\ UNCHANGED <<threadFrame, store, cache, selected>>

NextLocks ==
    \E t \in Threads :
        \/ ListInstancesCall(t)
        \/ ListInstancesFail(t)
        \/ \E raw \in RawListings : ListInstancesOk(t, raw)
        \/ ListInstancesRLock(t)
        \/ ListInstancesConvert(t)
        \/ ListInstancesSort(t)
        \/ ListInstancesLock(t)
        \/ ListInstancesStore(t)
        \/ GetInstancesLock(t)
        \/ GetInstancesReturn(t)
        \/ \E id \in FleetIDs : RefreshProtectionStatusCall(t, id)
        \/ DescribeAttributeFail(t)
        \/ DescribeTerminationOk(t)
        \/ DescribeStopOk(t)
        \/ RefreshProtectionStatusLock(t)
        \/ RefreshProtectionStatusStore(t)
        \/ RefreshInstancesViewLock(t)
        \/ RefreshInstancesLock(t)
        \/ \E u \in Threads : RefreshInstancesGo(t, u)

\* the client and the coordinator called from MaxThreads goroutines
SpecLocks == Init /\ [][NextLocks]_vars

(***************************************************************************)
(* Protection toggles                                                      *)
(***************************************************************************)
\* keys 'x' (op "handleToggleTerminationProtection") and 'n' (op
\* "handleToggleStopProtection") of the main page, bound in expert mode: the
\* handler up to its go statement. thread[1] is the handler's goroutine; its
\* field i is selectedInstance, the address of a slot of v.instances. The
\* operator presses the key while no refresh is under way, so the slot stays a
\* slot of the list the view holds; the goroutine is counted in command.calls.
handleToggleProtection(op) ==
    /\ expertMode
    /\ nRefresh >= 1
    /\ ~ModalOpen
    /\ thread[1].op = "idle"
    /\ Len(command.calls) < MaxCommands
    /\ \A r \in Refreshes : refresh[r].pc \in {"idle", "failed", "done"}
    /\ LET g == GetSelectedInstance
       IN  IF g.index = 0
           THEN /\ status' = Msg("No instance selected", 0)
                /\ UNCHANGED <<selected, thread, command>>
           ELSE /\ selected' = g.selected
                /\ thread' = [thread EXCEPT ![1] =
                                 [NoThread EXCEPT !.op = op, !.pc = "go",
                                                  !.id = viewInstances[g.index].ID,
                                                  !.i = g.index]]
                /\ command' = [command EXCEPT !.calls =
                                  Append(@, [op |-> op, id |-> viewInstances[g.index].ID,
                                             state |-> viewInstances[g.index].State,
                                             pc |-> "call"])]
                /\ UNCHANGED status
    /\ UNCHANGED <<configVars, lock, filter, nRefresh, refresh, store, cache, queue,
                   viewInstances, table, tableSel, overview, batch, received, ghostVars>>

\* the goroutine of a toggle handler, one step per gateway call and per
\* QueueUpdateDraw; term holds termState and stop holds stopState until the
\* last reload, whose pair they hold then; err says that the goroutine returns
\* once its queued closure has run
toggleGoroutine ==
    LET me == thread[1]
        isTerm == me.op = "handleToggleTerminationProtection"
        row == viewInstances[me.i]
        fetched == [id |-> me.id, termination |-> remoteProt[me.id].termination,
                    stop |-> remoteProt[me.id].stop]
        Closure(kind, term, stop) ==
            [NoItem EXCEPT !.kind = kind, !.id = me.id, !.term = term, !.stop = stop]
        Failed ==
            /\ queue' = Append(queue, Closure("toggleError", FALSE, FALSE))
            /\ thread' = [thread EXCEPT ![1].pc = "queued", ![1].err = TRUE]
            /\ UNCHANGED <<cache, described, remoteProt>>
    IN  /\ me.op \in {"handleToggleTerminationProtection", "handleToggleStopProtection"}
        /\ \/ \* the state and the two known flags are read through selectedInstance
              /\ me.pc = "go"
              /\ thread' = [thread EXCEPT
                               ![1].term = row.TerminationProtection,
                               ![1].stop = row.StopProtection,
                               ![1].pc = IF /\ row.TerminationProtectionKnown
                                            /\ row.StopProtectionKnown
                                         THEN "status" ELSE "RefreshProtectionStatus"]
              /\ UNCHANGED <<queue, cache, described, remoteProt>>
           \/ \* a flag is false: RefreshProtectionStatus fails, SetError is queued
              /\ me.pc = "RefreshProtectionStatus"
              /\ Failed
           \/ \* or answers: the cache is written, the state is the fetched one
              \* and UpdateProtection is queued with the one fetched value
              /\ me.pc = "RefreshProtectionStatus"
              /\ cache' = setCachedProtection(me.id, fetched.termination, fetched.stop)
              /\ described' = described \cup {fetched}
              /\ queue' = Append(queue, Closure("togglePatch", fetched.termination,
                                                fetched.stop))
              /\ thread' = [thread EXCEPT
                               ![1].term = IF isTerm THEN fetched.termination ELSE @,
                               ![1].stop = IF isTerm THEN @ ELSE fetched.stop,
                               ![1].pc = "queued"]
              /\ UNCHANGED remoteProt
           \/ \* SetStatus("Enabling ..." or "Disabling ...") is queued
              /\ me.pc = "status"
              /\ queue' = Append(queue, Closure("toggleStatus", FALSE, FALSE))
              /\ thread' = [thread EXCEPT ![1].pc = "queued"]
              /\ UNCHANGED <<cache, described, remoteProt>>
           \/ \* SetTerminationProtection or SetStopProtection fails
              /\ me.pc = "SetProtection"
              /\ Failed
           \/ \* or sets the attribute to the negated state
              /\ me.pc = "SetProtection"
              /\ remoteProt' = IF isTerm
                               THEN [remoteProt EXCEPT ![me.id].termination = ~me.term]
                               ELSE [remoteProt EXCEPT ![me.id].stop = ~me.stop]
              /\ thread' = [thread EXCEPT ![1].pc = "reload"]
              /\ UNCHANGED <<queue, cache, described>>
           \/ \* the second RefreshProtectionStatus fails
              /\ me.pc = "reload"
              /\ Failed
           \/ \* or answers: SetStatus and UpdateProtection(id, term, stop) are queued
              /\ me.pc = "reload"
              /\ cache' = setCachedProtection(me.id, fetched.termination, fetched.stop)
              /\ described' = described \cup {fetched}
              /\ queue' = Append(queue, Closure("toggleDone", fetched.termination,
                                                fetched.stop))
              /\ thread' = [thread EXCEPT ![1].term = fetched.termination,
                                          ![1].stop = fetched.stop,
                                          ![1].pc = "queued", ![1].err = TRUE]
              /\ UNCHANGED remoteProt
        /\ UNCHANGED <<expertMode, ctxDone, lock, command, filter, nRefresh, refresh, store,
                       viewVars, barVars, batch, received, ticker, lastPatch, call, ret>>

\* the event loop runs a closure a toggle goroutine queued and the goroutine
\* goes on; the first UpdateProtection takes the attribute the handler does
\* not toggle from selectedInstance when the closure runs
RunToggleClosure ==
    /\ queue # <<>>
    /\ Head(queue).kind \in {"toggleError", "togglePatch", "toggleStatus", "toggleDone"}
    /\ queue' = Tail(queue)
    /\ LET item == Head(queue)
           isTerm == thread[1].op = "handleToggleTerminationProtection"
           row == viewInstances[thread[1].i]
           u == IF item.kind = "togglePatch"
                THEN UpdateProtection(viewInstances, table, item.id,
                                      IF isTerm THEN item.term
                                      ELSE row.TerminationProtection,
                                      IF isTerm THEN row.StopProtection ELSE item.stop)
                ELSE IF item.kind = "toggleDone"
                THEN UpdateProtection(viewInstances, table, item.id, item.term, item.stop)
                ELSE [instances |-> viewInstances, table |-> table]
       IN  /\ viewInstances' = u.instances
           /\ table' = u.table
           /\ status' = IF item.kind = "toggleError" THEN Msg("Error", 0)
                        ELSE IF item.kind = "toggleStatus"
                        THEN Msg("Updating protection", 0)
                        ELSE IF item.kind = "toggleDone" THEN Msg("Protection updated", 0)
                        ELSE status
           /\ thread' = [thread EXCEPT ![1] =
                            IF thread[1].err THEN NoThread
                            ELSE [@ EXCEPT !.pc = IF item.kind = "togglePatch"
                                                  THEN "status" ELSE "SetProtection"]]
    /\ UNCHANGED <<configVars, lock, command, filter, nRefresh, refresh, store, cache, selected,
                   tableSel, overview, batch, received, ghostVars>>

InitToggle == Init /\ expertMode

\* the console in expert mode with the two toggle keys; the operator triggers
\* no refresh while a toggle is under way
SpecToggle ==
    InitToggle /\
    [][\/ thread[1].op = "idle" /\ Start
       \/ thread[1].op = "idle" /\ ManualRefresh
       \/ \E r \in Refreshes : RefreshStep(r)
       \/ queue # <<>> /\ Head(queue).kind \in {"snapshot", "patch"} /\ RunQueued
       \/ \E op \in {"handleToggleTerminationProtection",
                     "handleToggleStopProtection"} : handleToggleProtection(op)
       \/ toggleGoroutine
       \/ RunToggleClosure]_vars

(***************************************************************************)
(* Properties of the refresh path                                          *)
(***************************************************************************)
\* C1: at most one gateway list call (ListInstances) is in flight at any time;
\* a trigger that arrives while a refresh waits on the gateway starts no
\* further call.
C1_AtMostOneListInFlight ==
    Cardinality({r \in Refreshes : refresh[r].pc = "list"}) <= 1

\* C2: every mutation of render state (rows, held list, selection, status bar,
\* overview) is a step of the render thread; a step of the ticker goroutine, of
\* a refresh goroutine or of an enrichment goroutine leaves render state as it
\* is.  The step in which the event loop runs a queued closure is the render
\* thread's, although the goroutine that queued the closure resumes in it.
C2_RenderStateOnRenderThread ==
    [][(\/ ticker' # ticker
        \/ \E r \in Refreshes :
              /\ refresh[r].pc \in {"list", "filter", "publish", "enrich"}
              /\ refresh'[r].pc # refresh[r].pc
        \/ \E b \in Refreshes :
              /\ batch[b].active
              /\ batch'[b] # batch[b]
              /\ Len(queue') >= Len(queue))
       => UNCHANGED <<viewInstances, selected, table, tableSel, status, overview>>]_vars

\* C3: GetSelectedInstance is only executed on the render thread: the ticker
\* goroutine is never found past a GetSelectedInstance call of its own.
C3_SelectionReadOnRenderThread ==
    ticker = 0

C5_SnapshotBeforePatch ==
    [][(/\ queue # <<>>
        /\ queue' = Tail(queue)
        /\ Head(queue).kind = "patch")
       => refresh[Head(queue).r].applied]_vars

\* a patch of a batch was applied after the snapshot of the batch's refresh
C5_Witness ==
    /\ lastPatch # "none"
    /\ \E r \in Refreshes : batch[r].active /\ refresh[r].applied

\* C10: a patch closure for an ID that the view does not hold leaves the held
\* list, the rows, the remembered index and the cursor unchanged, whichever
\* refresh replaced the snapshot in between; the closure has no failure path.
C10_StalePatchNoOp ==
    [][(/\ queue # <<>>
        /\ queue' = Tail(queue)
        /\ Head(queue).kind = "patch"
        /\ Head(queue).id \notin IDsOf(viewInstances))
       => UNCHANGED <<viewInstances, table, selected, tableSel>>]_vars

\* a stale patch was run over a view that shows other instances
C10_Witness ==
    /\ lastPatch = "miss"
    /\ table # <<>>

(***************************************************************************)
(* Properties of FetchProtectionStatuses                                   *)
(***************************************************************************)
\* C6: in every state of a FetchProtectionStatuses(ids, K) call at most K tasks
\* are between taking and releasing a semaphore slot.
C6_BoundedConcurrency ==
    \A b \in Refreshes :
        batch[b].active => Cardinality(Holding(b)) <= batch[b].limit

\* the limit is reached while another task waits for a slot
C6_Witness ==
    /\ batch[1].active
    /\ Cardinality(Holding(1)) = batch[1].limit
    /\ \E t \in Tasks(1) : batch[1].task[t].pc = "acquire"

\* C7: the stream is closed only after every task of the batch has delivered
\* its result or failed; nothing is sent after the close; and when the caller
\* keeps reading and every gateway call returns, the stream is closed in the
\* end.
C7_CloseAfterAllTasks ==
    /\ [](\A b \in Refreshes :
            batch[b].closed => \A t \in Tasks(b) : batch[b].task[t].pc = "done")
    /\ [][\A b \in Refreshes :
            batch[b].closed => /\ received' = received
                               /\ batch'[b].task = batch[b].task]_vars
    /\ <>(batch[1].closed)

\* the stream of a batch of several IDs was closed after a delivery
C7_Witness ==
    /\ batch[1].closed
    /\ Len(batch[1].ids) >= 2
    /\ Len(received) >= 1

\* C8: a failed fetch sends nothing and writes no cache entry, and it gives its
\* slot back so that its siblings run; the results received for an ID are as
\* many as the occurrences of the ID whose fetch succeeded and was handed
\* over, and a cache entry exists only for such an ID and holds what its fetch
\* returned.
C8_FailureIsolated ==
    \A b \in {1} :
        batch[b].active =>
          /\ batch[b].sem = Cardinality(Holding(b))
          /\ \A id \in FetchIDs :
                Cardinality({i \in 1..Len(received) : received[i].InstanceID = id})
                  = Cardinality({t \in Tasks(b) :
                                    /\ batch[b].ids[t] = id
                                    /\ ~batch[b].task[t].err
                                    /\ batch[b].task[t].pc \in {"cache", "done"}})
          /\ \A t \in Tasks(b) :
                batch[b].task[t].err => batch[b].task[t].pc = "done"
          /\ \A id \in DOMAIN cache :
                /\ \E t \in Tasks(b) :
                      /\ batch[b].ids[t] = id
                      /\ ~batch[b].task[t].err
                      /\ batch[b].task[t].pc = "done"
                /\ cache[id].termination = remoteProt[id].termination
                /\ cache[id].stop = remoteProt[id].stop

\* with a single slot, a task failed and a sibling still delivered and cached
\* its result before the stream was closed
C8_Witness ==
    /\ batch[1].closed
    /\ batch[1].limit = 1
    /\ \E t, u \in Tasks(1) :
          /\ batch[1].task[t].err
          /\ ~batch[1].task[u].err
          /\ batch[1].ids[u] \in DOMAIN cache
    /\ received # <<>>

\* C9: results stream in completion order, not input order: a task that has
\* its result and waits in the send is received by a waiting caller at once,
\* whatever the tasks of the earlier IDs are doing.
C9_Streaming ==
    \A t \in 1..MaxIds :
        (/\ batch[1].active
         /\ t \in Tasks(1)
         /\ batch[1].task[t].pc = "send"
         /\ ~batch[1].closed
         /\ batch[1].consumer = "recv")
        => ENABLED Drain(1, t)

\* for the IDs a, b, c the caller holds the results of c and b, in this order,
\* while the fetch of a has not returned
C9_Witness ==
    /\ batch[1].ids = <<S_a, S_b, S_c>>
    /\ [i \in 1..Len(received) |-> received[i].InstanceID] = <<S_c, S_b>>
    /\ batch[1].task[1].pc \in {"acquire", "describe"}

(***************************************************************************)
(* Properties of InstancesView                                             *)
(***************************************************************************)
\* C11: UpdateProtection for an ID the view holds changes the protection
\* fields of the held instance with that ID and, with protection columns shown,
\* the two protection cells of its row, to the values passed; every other
\* instance and row, every other field and cell of that instance and row, the
\* number and order of the rows, the remembered index and the cursor are left
\* as they were.
C11_PatchTouchesOneRow ==
    [][\A id \in FleetIDs, term, stop \in BOOLEAN :
          (ViewUpdateProtection(id, term, stop) /\ id \in IDsOf(viewInstances))
          => /\ Len(viewInstances') = Len(viewInstances)
             /\ Len(table') = Len(table)
             /\ selected' = selected
             /\ tableSel' = tableSel
             /\ \A i \in 1..Len(viewInstances) :
                   IF viewInstances[i].ID = id
                   THEN /\ viewInstances'[i] =
                             [viewInstances[i] EXCEPT
                                 !.TerminationProtection = term,
                                 !.StopProtection = stop,
                                 !.TerminationProtectionKnown = TRUE,
                                 !.StopProtectionKnown = TRUE]
                        /\ table'[i] =
                             IF expertMode
                             THEN [table[i] EXCEPT
                                     !.TProtect = Cell(IF term THEN S_On ELSE S_Off),
                                     !.SProtect = Cell(IF stop THEN S_On ELSE S_Off)]
                             ELSE table[i]
                   ELSE /\ viewInstances'[i] = viewInstances[i]
                        /\ table'[i] = table[i]]_vars

\* a patch has changed the cells of one of two rows shown with protections
C11_Witness ==
    /\ call.op = "UpdateProtection"
    /\ call.text \in IDsOf(viewInstances)
    /\ Len(viewInstances) = 2
    /\ expertMode
    /\ \E i \in 1..2 :
          /\ viewInstances[i].ID = call.text
          /\ table[i].TProtect = Cell(IF call.term THEN S_On ELSE S_Off)
          /\ ~viewInstances[3 - i].TerminationProtectionKnown

\* C12: right after UpdateInstances(S), for any S and any remembered index,
\* GetSelectedInstance returns an element of S when S is not empty and nil
\* when S is empty; a remembered index that is out of range for a non-empty S
\* gives the first row.
C12_SelectionClamped ==
    [][\A S \in ViewLists :
          ViewUpdateInstances(S)
          => /\ S # <<>> => GetSelectedInstance'.index \in 1..Len(S)
             /\ S = <<>> => GetSelectedInstance'.index = 0
             /\ (S # <<>> /\ selected >= Len(S))
                   => /\ GetSelectedInstance'.index = 1
                      /\ GetSelectedInstance'.selected = 0]_vars

\* a list of one instance was applied and the first row is selected
C12_Witness ==
    /\ call.op = "UpdateInstances"
    /\ Len(call.list) = 1
    /\ viewInstances = call.list
    /\ GetSelectedInstance.index = 1
    /\ selected = 0

\* C13: UpdateInstances(S) applied again right after UpdateInstances(S), with
\* no call and no cursor move in between, leaves the rows, their order, the
\* cursor and the remembered index as the first application left them.
C13_PublishIdempotent ==
    [][\A S \in ViewLists :
          (call.op = "UpdateInstances" /\ call.list = S /\ ViewUpdateInstances(S))
          => /\ viewInstances' = viewInstances
             /\ table' = table
             /\ tableSel' = tableSel
             /\ selected' = selected]_vars

\* a list of two instances is shown after UpdateInstances, with the cursor on
\* its second row
C13_Witness ==
    /\ call.op = "UpdateInstances"
    /\ Len(call.list) = 2
    /\ viewInstances = call.list
    /\ tableSel = 2
    /\ selected = 1

C15_SortedByNameThenID ==
    call.op = "ListInstances"
    => \A i, j \in 1..Len(ret) :
          i < j => \/ ret[i].Name # S_empty /\ ret[j].Name = S_empty
                   \/ /\ ret[i].Name # S_empty
                      /\ ret[j].Name # S_empty
                      /\ StrLess(ret[i].Name, ret[j].Name)
                   \/ ret[i].Name = ret[j].Name /\ StrLess(ret[i].ID, ret[j].ID)

(***************************************************************************)
(* Properties of filtering and rendering in the console                    *)
(***************************************************************************)
\* C16: SetFilter re-renders from the snapshot fetched last and issues no
\* gateway list call: a step that changes the filter starts no refresh.
C16_SetFilterIsLocal ==
    [][filter' # filter
       => /\ nRefresh' = nRefresh
          /\ \A r \in Refreshes : refresh'[r].pc = "list" => refresh[r].pc = "list"]_vars

\* C17: in every state a protection of a held instance whose known flag is
\* false is shown as "Unknown", in the row's cell (when the protection columns
\* are shown) and in the detail view's text, and never as On/Off or
\* Enabled/Disabled.
C17_UnknownShownAsUnknown ==
    \A i \in 1..Len(viewInstances) :
        /\ Len(table) = Len(viewInstances)
        /\ ~viewInstances[i].TerminationProtectionKnown
              => /\ expertMode => table[i].TProtect = Cell(S_Unknown)
                 /\ formatProtectionStatus(viewInstances[i].TerminationProtection,
                                           viewInstances[i].TerminationProtectionKnown)
                        = "Unknown"
        /\ ~viewInstances[i].StopProtectionKnown
              => /\ expertMode => table[i].SProtect = Cell(S_Unknown)
                 /\ formatProtectionStatus(viewInstances[i].StopProtection,
                                           viewInstances[i].StopProtectionKnown)
                        = "Unknown"

\* two rows are shown with protection columns: one patched, one still unknown
C17_Witness ==
    /\ expertMode
    /\ Len(viewInstances) = 2
    /\ \E i \in 1..2 :
          /\ ~viewInstances[i].StopProtectionKnown
          /\ table[i].SProtect = Cell(S_Unknown)
          /\ viewInstances[3 - i].StopProtectionKnown
          /\ table[3 - i].SProtect # Cell(S_Unknown)
    /\ call.op = "UpdateProtection"

(***************************************************************************)
(* Properties of the attribute cache and of the launch of enrichment       *)
(***************************************************************************)
\* C18: a batch exists only with enrichment (expert mode) on; when the refresh
\* goroutine passes the launch, a batch is started exactly when enrichment is on
\* and some published row has no cache entry at that moment, its IDs are those
\* rows' IDs in row order, and the goroutine ends with every task of the batch
\* still to start.
C18_EnrichUncachedRows ==
    /\ [](\A r \in Refreshes : batch[r].active => expertMode)
    /\ [][\A r \in Refreshes :
            (refresh[r].pc = "enrich" /\ refresh'[r].pc = "done")
            => LET uncached(x) == x.ID \notin DOMAIN cache
                   rows == SelectSeq(refresh[r].filtered, uncached)
                   want == [i \in 1..Len(rows) |-> rows[i].ID]
               IN  IF expertMode /\ want # <<>>
                   THEN /\ batch'[r].active
                        /\ batch'[r].ids = want
                        /\ ~batch'[r].closed
                        /\ \A t \in 1..Len(want) : batch'[r].task[t].pc = "acquire"
                   ELSE batch' = batch]_vars

\* two rows were published, the cache held one of their IDs at the launch and
\* the batch was started for the other
C18_Witness ==
    /\ refresh[1].pc = "done"
    /\ Len(viewInstances) = 2
    /\ batch[1].active
    /\ Len(batch[1].ids) = 1
    /\ batch[1].ids[1] \in IDsOf(viewInstances)
    /\ \E id \in DOMAIN cache : id \in IDsOf(viewInstances) /\ id # batch[1].ids[1]

\* C19: the cache never evicts: an ID that has an entry keeps one in every
\* later state; an entry changes only in a setCachedProtection call for its ID,
\* to the pair passed; and getCachedProtection returns the entry and found =
\* true exactly for the IDs that have one.
C19_CacheNeverEvicts ==
    [][(\A id \in DOMAIN cache :
            /\ id \in DOMAIN cache'
            /\ cache'[id] # cache[id]
                  => /\ call'.op = "setCachedProtection"
                     /\ call'.text = id)
       /\ (call'.op = "setCachedProtection"
             => /\ call'.text \in DOMAIN cache'
                /\ cache'[call'.text] = [termination |-> call'.term, stop |-> call'.stop])
       /\ (\A k \in FleetIDs :
             CallGetCachedProtection(k)
             => ret' = <<IF k \in DOMAIN cache
                         THEN [termination |-> cache[k].termination,
                               stop |-> cache[k].stop, ok |-> TRUE]
                         ELSE [termination |-> FALSE, stop |-> FALSE, ok |-> FALSE]>>)]_vars

\* an entry was overwritten while another ID kept its own, and a get returned
\* the overwritten entry's new pair
C19_Witness ==
    /\ call.op = "getCachedProtection"
    /\ DOMAIN cache = FleetIDs
    /\ ret = <<[termination |-> TRUE, stop |-> TRUE, ok |-> TRUE]>>
    /\ \E id \in FleetIDs : cache[id] = [termination |-> FALSE, stop |-> FALSE]

(***************************************************************************)
(* Properties of cancellation                                              *)
(***************************************************************************)
\* C20: once the context is cancelled, a task that has not taken a semaphore
\* slot starts no gateway describe call (it stays before the slot or ends
\* without a call); a task that holds a slot is not aborted by the
\* cancellation step.
C20_CancelStopsAdmission ==
    [][/\ ctxDone
          => \A t \in Tasks(1) :
                batch[1].task[t].pc = "acquire" => batch'[1].task[t].pc # "describe"
       /\ ctxDone' # ctxDone => batch' = batch]_vars

(***************************************************************************)
(* Properties of shutdown and of recovery                                  *)
(***************************************************************************)
\* C21: after Stop has cancelled the context no gateway list call is started:
\* the ticker goroutine triggers no refresh and a trigger is rejected.
C21_NoListAfterStop ==
    [][ctxDone
       => \A r \in Refreshes : refresh'[r].pc = "list" => refresh[r].pc = "list"]_vars

\* C22: a worker limit of zero or less is replaced by a positive default: the
\* call still runs every task and closes the stream in the end, and it does
\* not crash.
C22_InvalidLimitDefaulted ==
    /\ (batch[1].limit <= 0 => <>(batch[1].closed))
    /\ [](batch[1].consumer # "panic")

\* C23: the period of the refresh ticker is the configured interval when that
\* is positive, and 30 seconds when it is zero or negative.
C23_TickerPeriod ==
    call.op = "startRefreshTicker" =>
        /\ call.list[1] > 0 => ret = <<call.list[1]>>
        /\ call.list[1] <= 0 => ret = <<30 * Second>>

\* the ticker was started with a negative interval and runs every 30 seconds
C23_Witness ==
    /\ call.op = "startRefreshTicker"
    /\ call.list[1] < 0
    /\ ret = <<30 * Second>>

\* C24: after a refresh that failed at the gateway the coordinator accepts the
\* next trigger: a manual trigger and a timer tick are possible, the trigger
\* starts a new gateway list call, and a listing that succeeded is published
\* and shown.
C24_FailureLeavesIdle ==
    /\ []((nRefresh < MaxRefresh /\ \E r \in Refreshes : refresh[r].pc = "failed")
             => /\ ENABLED ManualRefresh
                /\ ticker = 0 => ENABLED TimerTick)
    /\ [][(/\ \E r \in Refreshes : refresh[r].pc = "failed"
           /\ nRefresh' = nRefresh + 1)
          => \/ refresh'[nRefresh + 1].pc = "list"
             \/ ticker' = nRefresh + 1]_vars
    /\ [](ticker # 0 => ENABLED TimerRefresh)
    /\ [](\A r \in Refreshes :
             /\ refresh[r].pc = "filter" => ENABLED Filter(r)
             /\ refresh[r].pc = "publish" => ENABLED Publish(r))
    /\ [](queue # <<>> => ENABLED RunQueued)

\* the first refresh failed and the second one was listed, published and shown
C24_Witness ==
    /\ refresh[1].pc = "failed"
    /\ refresh[2].applied
    /\ viewInstances # <<>>

(***************************************************************************)
(* Properties of the mutexes                                               *)
(***************************************************************************)
\* C25: no goroutine holds the cache lock, the store lock, the refresh lock or
\* the view's instance lock while a gateway call of its own (list or
\* describe) is in flight.
C25_NoLockAcrossGatewayCall ==
    \A t \in Threads :
        thread[t].pc \in {"DescribeInstances", "DescribeTermination", "DescribeStop"}
            => Held(t) = {}

\* a list call is in flight while another goroutine holds the store lock
C25_Witness ==
    \E t, u \in Threads :
        /\ thread[t].pc = "DescribeInstances"
        /\ "instancesM" \in Held(u)

\* C26: what GetInstances returns is the initial empty snapshot or the complete
\* sorted result of one successful ListInstances call, never a mix of two
\* listings and never a partly sorted list, whatever runs concurrently.
C26_SnapshotIsOneListing ==
    LET StoredListings ==
            {thread[u].list : u \in {v \in Threads : /\ thread[v].op = "ListInstances"
                                                     /\ thread[v].pc = "done"
                                                     /\ ~thread[v].err}}
    IN
    \A t \in Threads :
        (thread[t].op = "GetInstances" /\ thread[t].pc = "done")
            => /\ \/ thread[t].list = <<>>
                  \/ thread[t].list \in StoredListings
               /\ \A i, j \in 1..Len(thread[t].list) :
                     i < j => ~InstanceLess(thread[t].list[j], thread[t].list[i])

\* a reader obtained the two-instance listing of one ListInstances call while
\* another call had stored a different listing
C26_Witness ==
    \E t, u, v \in Threads :
        /\ thread[t].op = "GetInstances"
        /\ thread[t].pc = "done"
        /\ Len(thread[t].list) = 2
        /\ thread[u].list = thread[t].list
        /\ thread[u].op = "ListInstances"
        /\ thread[v].op = "ListInstances"
        /\ thread[v].pc = "done"
        /\ ~thread[v].err
        /\ thread[v].list # thread[u].list

(***************************************************************************)
(* Properties of enrichment results and of the detail view                 *)
(***************************************************************************)
\* C27: when the patch closure of an enrichment result for id is run, the
\* attribute cache already holds an entry for id.
C27_CachedBeforePatched ==
    [][(/\ queue # <<>>
        /\ queue' = Tail(queue)
        /\ Head(queue).kind = "patch")
       => getCachedProtection(Head(queue).id).ok]_vars

\* C28: opening the detail view issues the single-ID describe only when the
\* cache has no entry for the instance; on success the cache entry is the
\* returned pair and the row is patched; on failure the cache and the row are
\* as before and the detail shows Unknown.
C28_DetailDescribesOnMiss ==
    [][/\ (thread[1].op = "idle" /\ thread'[1].op = "ShowInstanceDetails")
            => ~getCachedProtection(thread'[1].id).ok
       /\ (thread[1].op = "ShowInstanceDetails" /\ thread'[1].op = "idle")
            => LET id == thread[1].id
                   idx == FirstIndex(viewInstances, id)
               IN  IF thread'[1].err
                   THEN /\ cache' = cache
                        /\ viewInstances' = viewInstances
                        /\ table' = table
                        /\ ret' = <<[termination |-> "Unknown", stop |-> "Unknown"]>>
                   ELSE /\ id \in DOMAIN cache'
                        /\ cache'[id] = [termination |-> remoteProt[id].termination,
                                         stop |-> remoteProt[id].stop]
                        /\ idx # 0 =>
                              /\ viewInstances'[idx].TerminationProtectionKnown
                              /\ viewInstances'[idx].StopProtectionKnown
                              /\ viewInstances'[idx].TerminationProtection
                                    = remoteProt[id].termination
                              /\ viewInstances'[idx].StopProtection
                                    = remoteProt[id].stop]_vars

C30_CallAfterYesThenRefresh ==
    /\ [][Len(command'.calls) # Len(command.calls)
          => /\ ModalOpen
             /\ command'.dialog = NoDialog
             /\ command'.calls = Append(command.calls,
                                        [op |-> command.dialog.op,
                                         id |-> command.dialog.id,
                                         state |-> command.dialog.state,
                                         pc |-> "call"])]_vars
    /\ [][(~ModalOpen /\ command'.dialog # NoDialog)
          => /\ tableSel \in 1..Len(viewInstances)
             /\ command'.dialog.id = viewInstances[tableSel].ID]_vars
    /\ [][\A i \in 1..Len(command.calls) :
             (command.calls[i].pc = "call" /\ command'.calls[i].pc # "call")
                => /\ queue' = Append(queue, CommandItem(
                                   IF command'.calls[i].pc = "ok" THEN "done" ELSE "error", i))
                   /\ UNCHANGED <<nRefresh, refresh, status>>]_vars
    /\ [][(queue # <<>> /\ queue' = Tail(queue) /\ Head(queue).kind = "done")
          => /\ command.calls[Head(queue).r].pc = "ok"
             /\ nRefresh' = nRefresh + 1
             /\ refresh'[nRefresh + 1].pc = "list"]_vars
    /\ [][(queue # <<>> /\ queue' = Tail(queue) /\ Head(queue).kind = "error")
          => /\ command.calls[Head(queue).r].pc = "failed"
             /\ status' = Msg("Error", 0)
             /\ UNCHANGED <<nRefresh, refresh>>]_vars

\* a confirmed command succeeded while another instance had come under the
\* cursor, and its closure has triggered the second refresh
C30_Witness ==
    /\ Len(command.calls) = 1
    /\ command.calls[1].pc = "ok"
    /\ queue = <<>>
    /\ nRefresh = 2
    /\ tableSel \in 1..Len(viewInstances)
    /\ viewInstances[tableSel].ID # command.calls[1].id

(***************************************************************************)
(* Properties of overlapping refreshes                                     *)
(***************************************************************************)
\* nothing is in flight: no ticker goroutine inside RefreshInstances, no
\* refresh goroutine between its go statement and its end, no task or consumer
\* of an enrichment batch still running, no closure waiting for the event loop
Quiescent ==
    /\ ticker = 0
    /\ queue = <<>>
    /\ \A r \in Refreshes : refresh[r].pc \in {"idle", "failed", "done"}
    /\ \A b \in Refreshes : batch[b].active =>
          /\ batch[b].consumer = "exit"
          /\ \A t \in Tasks(b) : batch[b].task[t].pc = "done"

\* C31: with enrichment on, in a quiescent state every rendered row whose ID
\* has an attribute cache entry shows both protections as known, with the
\* cached values.
C31_NoLostEnrichment ==
    (expertMode /\ Quiescent) =>
        \A i \in 1..Len(viewInstances) :
            LET inst == viewInstances[i]
                hit == getCachedProtection(inst.ID)
            IN  hit.ok =>
                    /\ inst.TerminationProtectionKnown
                    /\ inst.StopProtectionKnown
                    /\ inst.TerminationProtection = hit.termination
                    /\ inst.StopProtection = hit.stop
                    /\ table[i] = RenderRow(inst, expertMode)

\* C32: snapshots are applied in trigger order (refreshes are numbered by
\* their trigger): a snapshot is never applied after the snapshot of a refresh
\* triggered later; so in a quiescent state the rendered rows are, protection
\* fields aside, a filtered copy of the listing the snapshot store holds.
C32_SnapshotsInTriggerOrder ==
    /\ [][\A r \in Refreshes :
             (~refresh[r].applied /\ refresh'[r].applied)
                 => \A u \in Refreshes : u > r => ~refresh[u].applied]_vars
    /\ [](LET Bare(inst) == Instance(inst.ID, inst.Name, inst.State, inst.Type,
                                      inst.PrivateIP, inst.PublicIP)
              BareSeq(l) == [i \in 1..Len(l) |-> Bare(l[i])]
          IN  (Quiescent /\ \E r \in Refreshes : refresh[r].applied)
                  => \E f \in Filters :
                        BareSeq(viewInstances) = BareSeq(applyFilter(f, store)))

\* C33: in a quiescent state the rendered rows are, protection fields aside,
\* applyFilter under the current filter (which only SetFilter changes) of the
\* listing published last, a sorted gateway answer with as many instances as
\* the overview panel counts: no snapshot filtered under an older filter is
\* left on the table (stated for behaviours in which no listing failed).
C33_RowsMatchCurrentFilter ==
    LET Bare(inst) == Instance(inst.ID, inst.Name, inst.State, inst.Type,
                                inst.PrivateIP, inst.PublicIP)
        BareSeq(l) == [i \in 1..Len(l) |-> Bare(l[i])]
    IN  (/\ Quiescent
         /\ \E r \in Refreshes : refresh[r].applied
         /\ \A r \in Refreshes : refresh[r].pc # "failed")
            => \E raw \in RawListings : \E published \in SortResults(raw) :
                  /\ Len(published) = overview.total
                  /\ BareSeq(viewInstances) = applyFilter(filter, published)

\* C34: when the event loop applies a snapshot, the row selected afterwards is
\* the row the cursor is on at that moment, provided that row exists in the
\* new list: a cursor move made after the refresh was triggered is kept.
C34_PublishKeepsCursor ==
    [][(/\ queue # <<>>
        /\ queue' = Tail(queue)
        /\ Head(queue).kind = "snapshot"
        /\ tableSel \in 1..Len(Head(queue).instances))
       => tableSel' = tableSel]_vars

(***************************************************************************)
(* Properties of the protection attributes                                 *)
(***************************************************************************)
\* C35: whenever a row holds a protection attribute as known, its value is a
\* value that a successful describe returned for the row's ID and for that
\* attribute; the toggle commands mark no attribute known with another value.
C35_KnownValuesWereDescribed ==
    \A i \in 1..Len(viewInstances) :
        LET inst == viewInstances[i]
            pairs == {d \in described : d.id = inst.ID}
        IN  /\ inst.TerminationProtectionKnown
                => \E d \in pairs : d.termination = inst.TerminationProtection
            /\ inst.StopProtectionKnown
                => \E d \in pairs : d.stop = inst.StopProtection

\* C36: over all enrichment batches together at most EnrichLimit tasks are in
\* their describe call at any time, and no two batches have a fetch of the
\* same ID in flight (waiting for a slot or describing) at the same time.
C36_LimitAcrossBatches ==
    LET InFlight(pcs) == {bt \in {<<b, t>> : b \in Refreshes, t \in 1..MaxIds} :
                            /\ batch[bt[1]].active
                            /\ bt[2] \in Tasks(bt[1])
                            /\ batch[bt[1]].task[bt[2]].pc \in pcs}
    IN  /\ Cardinality(InFlight({"describe"})) <= EnrichLimit
        /\ \A x, y \in InFlight({"acquire", "describe"}) :
              x[1] # y[1] => batch[x[1]].ids[x[2]] # batch[y[1]].ids[y[2]]

(***************************************************************************)
(* Termination after shutdown                                              *)
(***************************************************************************)
\* C37: once Stop has run, every background goroutine ends: the ticker
\* goroutine is out of RefreshInstances, no refresh goroutine waits on the
\* gateway or in QueueUpdateDraw, every task of every batch has returned and
\* every consumer has left its loop over the stream.
C37_TasksEndAfterStop ==
    ctxDone ~>
        (/\ ticker = 0
         /\ \A r \in Refreshes : refresh[r].pc \in {"idle", "failed", "done"}
         /\ \A b \in Refreshes : batch[b].active =>
               /\ batch[b].consumer = "exit"
               /\ batch[b].closed
               /\ \A t \in Tasks(b) : batch[b].task[t].pc = "done")

\* C38: in every state the two known flags of an instance are equal, for the
\* instances the view holds and for those ListInstances returned (the store
\* and the lists of the refresh goroutines), and every attribute cache entry
\* is a pair that one getProtectionAttributes call returned for that ID.
C38_FlagsEqualAndPairsWhole ==
    /\ \A list \in {viewInstances, store}
                      \cup {refresh[r].instances : r \in Refreshes}
                      \cup {refresh[r].filtered : r \in Refreshes} :
          \A i \in 1..Len(list) :
              list[i].TerminationProtectionKnown = list[i].StopProtectionKnown
    /\ \A id \in DOMAIN cache :
          [id |-> id, termination |-> cache[id].termination, stop |-> cache[id].stop]
              \in described

\* a toggle has changed an attribute of a listed instance: two different pairs
\* were described for it, the cache holds one, the row and a later listing
\* hold the instance with both flags set
C38_Witness ==
    \E id \in DOMAIN cache :
        /\ Cardinality({d \in described : d.id = id}) >= 2
        /\ \E i \in 1..Len(viewInstances) :
              /\ viewInstances[i].ID = id
              /\ viewInstances[i].TerminationProtectionKnown
              /\ viewInstances[i].StopProtectionKnown
        /\ \E i \in 1..Len(store) :
              /\ store[i].ID = id
              /\ store[i].TerminationProtectionKnown
              /\ store[i].StopProtectionKnown

====
